---- MODULE Spec2Model ----
(***************************************************************************)
(* AfterScan batch pipeline: the job queue runner, the frame generation    *)
(* loop, the video generation loop and the encoder worker thread of        *)
(* src/AfterScan.py, as a state machine.                                   *)
(*                                                                         *)
(* The Tk main loop runs one callback at a time; every callback is one     *)
(* action.  video_generation_loop is split where it starts the worker      *)
(* thread (threading.Thread.start), because call_ffmpeg runs concurrently  *)
(* from that point on.  An exception raised inside a callback ends the     *)
(* callback where it is raised (Tk reports it and goes on).                *)
(*                                                                         *)
(* Environment: the operator presses Go_btn or start_batch_btn only while  *)
(* the widget is enabled, and drives a batch with start_batch_btn only     *)
(* (Go_btn is not pressed while BatchJobRunning).  Frame files are read    *)
(* when the loop reaches them; output frames are never deleted; TargetDir  *)
(* exists.  All jobs share the source and the target directory.            *)
(***************************************************************************)
EXTENDS Integers, Sequences, FiniteSets, TLC

\* ---------------------------------------------------------------- bounds
NFrames == 2            \* len(SourceDirFileList)
MaxJobs == 3            \* len(job_list)
MaxThreads == 2         \* encoder worker threads alive at once
MaxStarts == 1          \* runs and batches the operator starts
MaxEdits == 1           \* changes the operator makes to the settings and the queue
MaxDim == 3             \* width and height of the images the support functions get

first_absolute_frame == 10   \* number embedded in the first source file name

\* ------------------------------------------------------- project configs
\* The fields of project_config that the run reads.  id is the identity of
\* the dict object: 0 for the dict bound to project_config, the job's own
\* number for a snapshot kept in job_list.
CfgAll ==
    [id |-> 0, EncodeAllFrames |-> TRUE, FrameFrom |-> 1, FrameTo |-> 0,
     GenerateVideo |-> TRUE, skip_frame_regeneration |-> FALSE,
     PerformCropping |-> FALSE, CurrentFrame |-> 0]

CfgRange ==
    [id |-> 0, EncodeAllFrames |-> FALSE, FrameFrom |-> 1, FrameTo |-> 2,
     GenerateVideo |-> FALSE, skip_frame_regeneration |-> FALSE,
     PerformCropping |-> TRUE, CurrentFrame |-> 1]

CfgSkip ==
    [id |-> 0, EncodeAllFrames |-> TRUE, FrameFrom |-> 1, FrameTo |-> 0,
     GenerateVideo |-> TRUE, skip_frame_regeneration |-> TRUE,
     PerformCropping |-> FALSE, CurrentFrame |-> 0]

\* A range that holds no frame: frame_from 1, frame_to 0.
CfgEmpty ==
    [id |-> 0, EncodeAllFrames |-> FALSE, FrameFrom |-> 1, FrameTo |-> 0,
     GenerateVideo |-> FALSE, skip_frame_regeneration |-> FALSE,
     PerformCropping |-> FALSE, CurrentFrame |-> 0]

\* Settings of the queued jobs, and settings the program can start with.
JobConfigs == {CfgAll, CfgRange}
StartConfigs == {CfgAll, CfgRange, CfgSkip}

\* Crop rectangle of the project (CropTopLeft, CropBottomRight), as (x, y).
CropTopLeft == <<1, 1>>
CropBottomRight == <<4, 4>>

\* Search area of the film hole (HoleSearchTopLeft, HoleSearchBottomRight)
\* and the (width, height) sizes film_hole_template can have.
HoleSearchTopLeft == <<0, 0>>
HoleSearchBottomRight == <<3, 3>>
TemplateDims == {<<1, 2>>, <<3, 2>>}

\* What cv2.imread can return for a source frame: None, or an image of one
\* of these (width, height) sizes.
FrameDims == {<<1, 1>>, <<5, 4>>}
NoImage == <<>>
ReadOutcomes == {NoImage} \cup FrameDims

\* Lines the encoder's output pipe can deliver to readline().strip().
LineKinds == {"empty", "frame", "garbage", "single"}

Callbacks == {"frame_generation_loop", "video_generation_loop", "job_processing_loop"}

\* --------------------------------------------------------- pure helpers
Min(a, b) == IF a < b THEN a ELSE b
Max(a, b) == IF a > b THEN a ELSE b

\* Length of the numpy slice [a:b] of an axis of length n.
SliceNorm(a, n) == IF a < 0 THEN Max(a + n, 0) ELSE Min(a, n)
SliceLen(a, b, n) == Max(SliceNorm(b, n) - SliceNorm(a, n), 0)

\* even_image: size <<w, h>> of the returned image.
even_image(img) ==
    LET width == img[1]
        height == img[2]
        X_end == IF width % 2 = 1 THEN width - 1 ELSE width
        Y_end == IF height % 2 = 1 THEN height - 1 ELSE height
    IN IF X_end # 0 \/ Y_end # 0
       THEN <<SliceLen(0, X_end, width), SliceLen(0, Y_end, height)>>
       ELSE img

\* Faulty variant of crop_image: an odd extent is kept.
crop_image_odd_kept(img, top_left, botton_right) ==
    <<SliceLen(top_left[1], Min(botton_right[1], img[1]), img[1]),
      SliceLen(top_left[2], Min(botton_right[2], img[2]), img[2])>>

\* crop_image: size <<w, h>> of the returned image.
crop_image(img, top_left, botton_right) ==
    LET width == img[1]
        height == img[2]
        Y_start == top_left[2]
        Y_end0 == Min(botton_right[2], height)
        X_start == top_left[1]
        X_end0 == Min(botton_right[1], width)
        X_end == IF (X_end0 - X_start) % 2 = 1 THEN X_end0 - 1 ELSE X_end0
        Y_end == IF (Y_end0 - Y_start) % 2 = 1 THEN Y_end0 - 1 ELSE Y_end0
    IN <<SliceLen(X_start, X_end, width), SliceLen(Y_start, Y_end, height)>>

\* The numbers first, first+1, ..., first+count-1 as a sequence (empty when
\* count <= 0), the way range() enumerates them.
RangeSeq(first, count) == [k \in 1..Max(count, 0) |-> first + k - 1]

\* Faulty variant of valid_generated_frame_range: one file of the range is
\* taken as enough.
valid_generated_frame_range_any(start, count, listing) ==
    LET lo == first_absolute_frame + start
        file_count == Cardinality({i \in lo..(lo + count - 1) : i \in listing})
    IN file_count > 0

\* valid_generated_frame_range: every number of the range has its file in
\* the cached listing of the target directory.
valid_generated_frame_range(start, count, listing) ==
    LET lo == first_absolute_frame + start
        file_count == Cardinality({i \in lo..(lo + count - 1) : i \in listing})
    IN file_count = count

\* Faulty variant of FirstNotDone: the done flag is not looked at.
FirstNotDone_ignoring_done(jobs) == IF Len(jobs) > 0 THEN 1 ELSE 0

\* Faulty variant of copy_config: the same dict object is handed on.
copy_config_alias(cfg, id) == cfg

\* dict.copy(): a new dict object, of identity id, with the same items.
copy_config(cfg, id) == [cfg EXCEPT !.id = id]

\* An item assignment on the dict object cfg, seen through every job entry
\* that holds the same object.
Store(jobs, cfg) ==
    [i \in DOMAIN jobs |->
        IF jobs[i].project.id = cfg.id THEN [jobs[i] EXCEPT !.project = cfg]
        ELSE jobs[i]]

\* Index of the first job that is not done, 0 when there is none.
FirstNotDone(jobs) ==
    IF \E i \in 1..Len(jobs) : ~jobs[i].done
    THEN CHOOSE i \in 1..Len(jobs) :
            ~jobs[i].done /\ \A k \in 1..(i - 1) : jobs[k].done
    ELSE 0

\* ------------------------------------------------------------ the state
VARIABLES
    job_list,                  \* insertion-ordered: [project, done]
    CurrentJobEntry,           \* index into job_list, -1 for none
    project_config,            \* current settings
    project_config_from_file,  \* False once the settings come from a job
    BatchJobRunning, ConvertLoopRunning, ConvertLoopExitRequested,
    CurrentFrame, StartFrame, frames_to_encode,
    TargetDirFileList,         \* cached listing of TargetDir (frame numbers)
    target_files,              \* frame numbers present in TargetDir
    video_file,                \* the output video exists in VideoTargetDir
    ffmpeg_encoding_status, ffmpeg_success,
    ffmpeg_process,            \* 0: name not bound yet, else the thread whose Popen bound it
    threads,                   \* call_ffmpeg threads: [pc, proc, rc, checked, args]
    main_pc,                   \* "idle", or "thread_started" inside video_generation_loop
    timers,                    \* pending win.after callbacks, by name
    starts,                    \* presses that found no conversion running
    Go_btn, start_batch_btn,   \* widget enabled
    app_status_label,
    \* observations of the current run
    written,                   \* numbers passed to cv2.imwrite, in order
    skipped,                   \* indices whose imread returned None
    odd_at,                    \* frames handled when an odd output size was met, -1 if none
    out_of_bounds,             \* FrameAlignTag-2 records logged
    img_read,                  \* what imread returned in the step just taken, NotRead if not called
    late_frames,               \* frames processed since the exit request
    invocations,               \* encoder threads started by this run
    last_end,                  \* how the latest run ended: [job, error]
    cancelled_encode,          \* the latest run ended in the Running-state cancel
    template_valid,            \* what validate_template_size returned for this run
    line,                      \* kind of the line the step just taken read, "none" if none
    \* the job list widgets and the operator
    selected,                  \* job_list_listbox.curselection(), 0 for none
    suspend_on_joblist_end,    \* the suspend checkbox
    suspends,                  \* system_suspend calls of the current batch
    edits,                     \* changes made to the settings and the queue
    queue_op,                  \* the latest of them
    probe,                     \* a support function applied to an input: [op, arg, res]
    \* settings of the frame transforms
    perform_stabilization,     \* the stabilization checkbox
    CropRectangle,             \* <<CropTopLeft, CropBottomRight>> in use
    pattern_pos,               \* where matchTemplate finds the film hole in the left stripe
    \* the encoder, the template registry and the aspect-ratio locks
    ffmpeg_installed,          \* what is_ffmpeg_installed found at start-up
    template_list,             \* TemplateList: [templates, active_template, img_width, img_height]
    template_op,               \* the latest operation on the registry: [op, arg]
    template_copy,             \* a Template.copy() the caller holds, <<>> for none
    force_4_3_crop,            \* the 4:3 checkbox
    force_16_9_crop,           \* the 16:9 checkbox
    Force43,                   \* the 4:3 flag that draw_rectangle reads
    Force169,                  \* the 16:9 flag that draw_rectangle reads
    force_config,              \* the items Force_4/3 and Force_16/9 of project_config
    Rectangle,                 \* <<RectangleTopLeft, RectangleBottomRight>>
    \* the status object of the user interface
    afterscan_status,          \* AfterScanStatus: attribute name -> value
    status_op                  \* the latest method called on it

vars == <<job_list, CurrentJobEntry, project_config,
          project_config_from_file, BatchJobRunning,
          ConvertLoopRunning, ConvertLoopExitRequested, CurrentFrame,
          StartFrame, frames_to_encode, TargetDirFileList, target_files,
          video_file, ffmpeg_encoding_status, ffmpeg_success, ffmpeg_process,
          threads, main_pc, timers, starts, Go_btn, start_batch_btn, app_status_label,
          written, skipped, odd_at, out_of_bounds, late_frames, invocations, last_end,
          cancelled_encode,
          template_valid, line, selected, suspend_on_joblist_end, suspends,
          edits, queue_op, probe, img_read, perform_stabilization,
          CropRectangle, pattern_pos, ffmpeg_installed, template_list,
          template_op, template_copy, force_4_3_crop, force_16_9_crop, Force43, Force169,
          force_config, Rectangle, afterscan_status, status_op>>

\* Settings of the frame transforms; the model keeps them as they start.
transform_vars == <<perform_stabilization, CropRectangle, pattern_pos>>

\* The template registry.
template_vars == <<template_list, template_op, template_copy>>

\* The aspect-ratio locks and the rectangle drawn with the mouse.
lock_vars == <<force_4_3_crop, force_16_9_crop, Force43, Force169, force_config,
               Rectangle>>

\* The status object.
status_vars == <<afterscan_status, status_op>>

\* What a run reads without writing it, and what it does not touch.
panel_vars == <<ffmpeg_installed, template_vars, lock_vars, status_vars>>

\* Left alone by every callback and by the worker thread.
operator_vars == <<suspend_on_joblist_end, edits, queue_op, probe, transform_vars,
                   panel_vars>>

\* Written by job_processing_loop and start_convert only.
runner_vars == <<selected, suspends, template_valid>>

\* The job lists the program can start with: MaxJobs jobs whose settings
\* alternate between the two job configurations, with any done flags.
JobLists ==
    {[i \in 1..MaxJobs |->
        [project |-> copy_config(IF i % 2 = k THEN CfgAll ELSE CfgRange, i),
         done |-> d[i]]] :
     d \in [1..MaxJobs -> BOOLEAN], k \in {0, 1}}

\* checked: StartFrame and frames_to_encode as the precondition check saw
\* them; args: -start_number and -frames:v of the command, -1 for no limit.
IdleThread == [pc |-> "idle", proc |-> "none", rc |-> 0,
               checked |-> <<0, 0>>, args |-> <<0, 0>>]

NoProbe == [op |-> "none", arg |-> <<>>, res |-> <<>>]

\* img_read in a step that did not call imread.
NotRead == <<0, 0>>

\* Stabilization off, the crop rectangle of the project, the film hole in
\* the corner of the stripe.
InitTransforms ==
    /\ perform_stabilization = FALSE
    /\ CropRectangle = <<CropTopLeft, CropBottomRight>>
    /\ pattern_pos = <<0, 0>>

\* An empty registry of templates for the reference image size.
InitTemplateList ==
    /\ template_list = [templates |-> [k \in {} |-> <<>>], active_template |-> <<>>,
                        img_width |-> 2028, img_height |-> 1520]
    /\ template_op = [op |-> "none", arg |-> <<>>]
    /\ template_copy = <<>>

\* Both locks off, no lock item in project_config, no rectangle drawn.
InitLocks ==
    /\ force_4_3_crop = FALSE
    /\ force_16_9_crop = FALSE
    /\ Force43 = FALSE
    /\ Force169 = FALSE
    /\ force_config = [k \in {} |-> FALSE]
    /\ Rectangle = <<<<0, 0>>, <<0, 0>>>>

\* AfterScanStatus() with the defaults of its fields.
InitStatus ==
    /\ afterscan_status =
           [k \in {"is_conversion_loop_running", "is_conversion_loop_exit_requested",
                    "is_correction_loop_running", "is_batch_job_running",
                    "is_batch_autostarted"} |-> FALSE]
           @@ [k \in {"is_ui_operational"} |-> TRUE]
           @@ [k \in {"file_type"} |-> "jpg"]
           @@ [k \in {"current_frame"} |-> 0]
    /\ status_op = "none"

\* The encoder was found at start-up.
InitPanel ==
    /\ ffmpeg_installed = TRUE
    /\ InitTemplateList
    /\ InitLocks
    /\ InitStatus

\* The program after start-up, apart from the job list, the settings and
\* the suspend checkbox.
InitIdle ==
    /\ CurrentJobEntry = -1
    /\ project_config_from_file = TRUE
    /\ BatchJobRunning = FALSE
    /\ ConvertLoopRunning = FALSE
    /\ ConvertLoopExitRequested = FALSE
    /\ CurrentFrame = 0
    /\ StartFrame = 0
    /\ frames_to_encode = 0
    /\ TargetDirFileList = {}
    /\ target_files = {}
    /\ video_file = FALSE
    /\ ffmpeg_encoding_status = "Pending"
    /\ ffmpeg_success = FALSE
    /\ ffmpeg_process = 0
    /\ threads = [t \in 1..MaxThreads |-> IdleThread]
    /\ main_pc = "idle"
    /\ timers = [c \in Callbacks |-> 0]
    /\ starts = 0
    /\ Go_btn = TRUE
    /\ start_batch_btn = TRUE
    /\ app_status_label = "Idle"
    /\ written = <<>>
    /\ skipped = {}
    /\ odd_at = -1
    /\ out_of_bounds = 0
    /\ img_read = NotRead
    /\ late_frames = 0
    /\ invocations = 0
    /\ last_end = [job |-> -1, error |-> FALSE]
    /\ cancelled_encode = FALSE
    /\ template_valid = TRUE
    /\ line = "none"
    /\ selected = 0
    /\ suspends = 0
    /\ edits = 0
    /\ queue_op = "none"

Init ==
    /\ probe = NoProbe
    /\ InitTransforms
    /\ InitPanel
    /\ job_list \in JobLists
    /\ project_config \in StartConfigs
    /\ suspend_on_joblist_end = FALSE
    /\ InitIdle

\* ------------------------------------------------------- shared routines
Schedule(tm, callback) == [tm EXCEPT ![callback] = @ + 1]

\* Faulty variant of generation_exit: the job is marked but the queue
\* runner is not scheduled again.
generation_exit_no_requeue(batch, exitreq, cje, jobs, tm) ==
    IF batch
    THEN IF exitreq \/ cje = -1
         THEN [BatchJobRunning |-> FALSE, job_list |-> jobs, timers |-> tm]
         ELSE [BatchJobRunning |-> FALSE,
               job_list |-> [jobs EXCEPT ![cje].done = TRUE],
               timers |-> tm]
    ELSE [BatchJobRunning |-> FALSE, job_list |-> jobs, timers |-> tm]

\* generation_exit: the values it leaves in BatchJobRunning, job_list and
\* the timer queue.  It always clears ConvertLoopRunning and
\* ConvertLoopExitRequested and enables every widget (ApplyExit).
generation_exit(batch, exitreq, cje, jobs, tm) ==
    IF batch
    THEN IF exitreq \/ cje = -1
         THEN [BatchJobRunning |-> FALSE, job_list |-> jobs, timers |-> tm]
         ELSE [BatchJobRunning |-> TRUE,
               job_list |-> [jobs EXCEPT ![cje].done = TRUE],
               timers |-> Schedule(tm, "job_processing_loop")]
    ELSE [BatchJobRunning |-> FALSE, job_list |-> jobs, timers |-> tm]

ApplyExit(r) ==
    /\ ConvertLoopRunning' = FALSE
    /\ ConvertLoopExitRequested' = FALSE
    /\ BatchJobRunning' = r.BatchJobRunning
    /\ job_list' = r.job_list
    /\ timers' = r.timers
    /\ Go_btn' = TRUE
    /\ start_batch_btn' = TRUE

\* Bookkeeping of last_end when a run ends: the batch job it was run for
\* (-1 outside a batch) and whether it met a per-run error.
RunEnd(err) ==
    [job |-> IF BatchJobRunning THEN CurrentJobEntry ELSE -1, error |-> err]

\* validate_template_size: the template must be smaller than the search
\* area in both dimensions.
validate_template_size(template) ==
    LET template_width == template[1]
        template_height == template[2]
        image_width == HoleSearchBottomRight[1] - HoleSearchTopLeft[1]
        image_height == HoleSearchBottomRight[2] - HoleSearchTopLeft[2]
    IN ~(template_width >= image_width \/ template_height >= image_height)

\* Faulty variant of exit_after_validation: the result is not acted on.
exit_after_validation_ignored(fits, exitreq) == exitreq

\* start_convert: a template that does not fit requests the exit.
exit_after_validation(fits, exitreq) == IF fits THEN exitreq ELSE TRUE

\* start_convert: StartFrame and frames_to_encode for the settings cfg.
start_frame(cfg) == IF cfg.EncodeAllFrames THEN 0 ELSE cfg.FrameFrom

frames_to_encode_of(cfg) ==
    IF cfg.EncodeAllFrames
    THEN NFrames
    ELSE LET n == cfg.FrameTo - cfg.FrameFrom + 1
         IN IF cfg.FrameFrom + n > NFrames THEN NFrames - cfg.FrameFrom ELSE n

\* start_convert, entered with the settings e.cfg, BatchJobRunning = e.batch,
\* CurrentFrame = e.cf, frames_to_encode = e.fte, the widget states e.go and
\* e.sb and the timer queue e.tm.  The caller sets CurrentJobEntry,
\* TargetDirFileList and project_config_from_file.
start_convert(e) ==
    IF ConvertLoopRunning
    THEN /\ ConvertLoopExitRequested' = TRUE
         /\ CurrentFrame' = e.cf
         /\ frames_to_encode' = e.fte
         /\ project_config' = e.cfg
         /\ BatchJobRunning' = e.batch
         /\ Go_btn' = e.go
         /\ start_batch_btn' = e.sb
         /\ timers' = e.tm
         /\ UNCHANGED <<ConvertLoopRunning, StartFrame, job_list,
                        ffmpeg_encoding_status, ffmpeg_success,
                        app_status_label, written, skipped, odd_at, out_of_bounds,
                        late_frames, invocations, last_end,
                        cancelled_encode, template_valid>>
    ELSE LET cfg == IF e.from_file      \* save_project_config
                    THEN [e.cfg EXCEPT !.CurrentFrame = e.cf]
                    ELSE e.cfg
             ns == start_frame(cfg)
             nf == frames_to_encode_of(cfg)
         IN /\ StartFrame' = ns
            /\ frames_to_encode' = nf
            /\ CurrentFrame' = ns
            /\ project_config' = cfg
            /\ job_list' = Store(job_list, cfg)
            /\ UNCHANGED <<app_status_label, last_end>>
            /\ IF nf = 0
               THEN \* "No frames match range": return
                    /\ BatchJobRunning' = e.batch
                    /\ Go_btn' = e.go
                    /\ start_batch_btn' = e.sb
                    /\ timers' = e.tm
                    /\ UNCHANGED <<ConvertLoopRunning, ConvertLoopExitRequested,
                                   ffmpeg_encoding_status, ffmpeg_success,
                                   written, skipped, odd_at, out_of_bounds, late_frames,
                                   invocations, cancelled_encode, template_valid>>
               ELSE \E overwrite \in IF cfg.GenerateVideo /\ video_file /\ ~e.batch
                                     THEN BOOLEAN ELSE {TRUE} :
                    IF ~overwrite
                    THEN \* askyesno answered no: generation_exit(); return
                         /\ ConvertLoopRunning' = FALSE
                         /\ ConvertLoopExitRequested' = FALSE
                         /\ BatchJobRunning' = FALSE
                         /\ Go_btn' = TRUE
                         /\ start_batch_btn' = TRUE
                         /\ timers' = e.tm
                         /\ UNCHANGED <<ffmpeg_encoding_status, ffmpeg_success,
                                        written, skipped, odd_at, out_of_bounds, late_frames,
                                        invocations, cancelled_encode,
                                        template_valid>>
                    ELSE /\ ConvertLoopRunning' = TRUE
                         /\ BatchJobRunning' = e.batch
                         /\ Go_btn' = ~e.batch
                         /\ start_batch_btn' = e.batch
                         /\ written' = <<>>
                         /\ skipped' = {}
                         /\ odd_at' = -1
                         /\ out_of_bounds' = 0
                         /\ late_frames' = 0
                         /\ invocations' = 0
                         /\ cancelled_encode' = FALSE
                         /\ IF ~cfg.GenerateVideo \/ ~cfg.skip_frame_regeneration
                            THEN \E tpl \in TemplateDims :
                                 LET fits == validate_template_size(tpl)
                                 IN
                                 /\ template_valid' = fits
                                 /\ ConvertLoopExitRequested' =
                                        exit_after_validation(fits, ConvertLoopExitRequested)
                                 /\ timers' = Schedule(e.tm, "frame_generation_loop")
                                 /\ UNCHANGED <<ffmpeg_encoding_status, ffmpeg_success>>
                            ELSE /\ ffmpeg_success' = FALSE
                                 /\ ffmpeg_encoding_status' = "Pending"
                                 /\ timers' = Schedule(e.tm, "video_generation_loop")
                                 /\ template_valid' = TRUE
                                 /\ UNCHANGED ConvertLoopExitRequested

\* job_processing_loop, entered with BatchJobRunning = batch, the widget
\* states go and sb, the timer queue tm and sus suspend calls so far.
job_processing_loop(batch, go, sb, tm, sus) ==
    LET entry == FirstNotDone(job_list)
    IN IF entry # 0
       THEN LET cfg == copy_config(job_list[entry].project, 0)
                \* decode_project_config, then get_source_dir_file_list
                cf0 == Max(cfg.CurrentFrame, 0)
                cf == IF cf0 >= NFrames THEN 0 ELSE cf0
                fte == cfg.FrameTo - cfg.FrameFrom + 1
            IN /\ CurrentJobEntry' = entry
               /\ selected' = 0              \* selection_clear(0, END)
               /\ suspends' = sus
               /\ project_config_from_file' = FALSE
               /\ TargetDirFileList' = target_files   \* get_target_dir_file_list
               /\ start_convert([cfg |-> cfg, batch |-> batch, cf |-> cf,
                                 fte |-> fte, go |-> go, sb |-> sb, tm |-> tm,
                                 from_file |-> FALSE])
       ELSE /\ CurrentJobEntry' = -1
            /\ ApplyExit(generation_exit(batch, ConvertLoopExitRequested, -1,
                                         job_list, tm))
            /\ suspends' = sus + IF suspend_on_joblist_end THEN 1 ELSE 0
            /\ UNCHANGED <<selected, template_valid>>
            /\ UNCHANGED <<project_config, project_config_from_file,
                           CurrentFrame, StartFrame, frames_to_encode,
                           TargetDirFileList, ffmpeg_encoding_status,
                           ffmpeg_success, app_status_label, written, skipped,
                           odd_at, out_of_bounds, late_frames, invocations, last_end,
                           cancelled_encode>>

\* ------------------------------------------------------ operator actions
\* Go_btn pressed: command=start_convert.
GoPress ==
    /\ main_pc = "idle"
    /\ Go_btn
    /\ ConvertLoopRunning \/ starts < MaxStarts
    /\ starts' = IF ConvertLoopRunning THEN starts ELSE starts + 1
    /\ ~BatchJobRunning
    /\ start_convert([cfg |-> project_config, batch |-> BatchJobRunning,
                      cf |-> CurrentFrame, fte |-> frames_to_encode,
                      go |-> Go_btn, sb |-> start_batch_btn, tm |-> timers,
                      from_file |-> project_config_from_file])
    /\ UNCHANGED <<CurrentJobEntry, project_config_from_file, TargetDirFileList,
                   target_files, video_file, ffmpeg_process, threads, main_pc,
                   operator_vars, selected, suspends>>
    /\ line' = "none"
    /\ img_read' = NotRead

\* start_batch_btn pressed: command=start_processing_job_list.
start_processing_job_list ==
    /\ main_pc = "idle"
    /\ start_batch_btn
    /\ ConvertLoopRunning \/ starts < MaxStarts
    /\ starts' = IF ConvertLoopRunning THEN starts ELSE starts + 1
    /\ job_processing_loop(TRUE, FALSE, TRUE, timers,
                           IF BatchJobRunning THEN suspends ELSE 0)
    /\ UNCHANGED <<target_files, video_file, ffmpeg_process, threads, main_pc,
                   operator_vars>>
    /\ line' = "none"
    /\ img_read' = NotRead

\* The callback scheduled by generation_exit with win.after(100, ...).
JobProcessingLoopTimer ==
    /\ main_pc = "idle"
    /\ timers["job_processing_loop"] > 0
    /\ job_processing_loop(BatchJobRunning, Go_btn, start_batch_btn,
                           [timers EXCEPT !["job_processing_loop"] = @ - 1],
                           suspends)
    /\ UNCHANGED <<target_files, video_file, ffmpeg_process, threads, main_pc,
                   starts, operator_vars>>
    /\ line' = "none"
    /\ img_read' = NotRead

\* ---------------------------------------------------- support functions
\* round(a / b) of Python 3 for a >= 0 and b > 0: to the nearest integer,
\* a tie to the even one.
round_div(a, b) ==
    LET q == a \div b
        r == a % b
    IN IF 2 * r < b THEN q
       ELSE IF 2 * r > b THEN q + 1
       ELSE IF q % 2 = 0 THEN q ELSE q + 1

\* expected_pattern_pos_s8 = (6.5, 34), in thousandths of the frame size.
expected_pattern_pos == <<65, 340>>

\* match_template(template, img, thres) for a template and an image given
\* by their sizes <<width, height>>; max_loc is the place of the best match
\* that cv2.minMaxLoc reports.
match_template(template, img, max_loc) ==
    LET w == template[1]
        h == template[2]
    IN IF w >= img[1] \/ h >= img[2]
       THEN <<0, 0>>
       ELSE max_loc

\* The places cv2.matchTemplate can report for the template in the image.
MatchLocations(template, img) ==
    (0..(img[1] - template[1])) \X (0..(img[2] - template[2]))

\* Faulty variant of determine_hole_height: the other film type is taken
\* over without asking.
determine_hole_height_auto(FilmType, top_left_1, top_left_2, batch, answer) ==
    IF top_left_1[2] > top_left_2[2]
    THEN [FilmType |-> IF FilmType = "R8" THEN "S8" ELSE "R8",
          height |-> top_left_1[2] - top_left_2[2]]
    ELSE [FilmType |-> FilmType, height |-> top_left_2[2] - top_left_1[2]]

\* determine_hole_height with project_config["FilmType"] = FilmType, the two
\* patterns found at top_left_1 and top_left_2, BatchJobRunning = batch and
\* the operator's answer to askyesno: the film type it leaves and the
\* height it returns.
determine_hole_height(FilmType, top_left_1, top_left_2, batch, answer) ==
    LET other_film_type == IF FilmType = "R8" THEN "S8" ELSE "R8"
    IN IF top_left_1[2] > top_left_2[2] /\ ~batch /\ answer
       THEN [FilmType |-> other_film_type,
             height |-> top_left_1[2] - top_left_2[2]]
       ELSE [FilmType |-> FilmType, height |-> top_left_2[2] - top_left_1[2]]

\* stabilize_image for a frame of size <<width, height>> whose left stripe
\* is img: the shift <<move_x, move_y>> of the translation matrix
\* (no custom template).
stabilize_image(frame, template, img, max_loc) ==
    LET found == match_template(template, img, max_loc)
        top_left == <<found[1] + HoleSearchTopLeft[1], found[2] + HoleSearchTopLeft[2]>>
    IN <<round_div(expected_pattern_pos[1] * frame[1], 1000) - top_left[1],
         round_div(expected_pattern_pos[2] * frame[2], 1000) - top_left[2]>>

\* get_image_left_stripe: size of the part of img inside the hole search
\* area.
get_image_left_stripe(img) ==
    <<SliceLen(HoleSearchTopLeft[1], HoleSearchBottomRight[1], img[1]),
      SliceLen(HoleSearchTopLeft[2], HoleSearchBottomRight[2], img[2])>>

\* stabilize_image: the rows of the crop rectangle crop the frame of the
\* given height leaves uncovered at the bottom and at the top once it is
\* shifted by move_y; negative when rows are missing.
missing_bottom(height, crop, move_y) == height - crop[2][2] + move_y

\* Faulty variant of missing_top: the sign is inverted.
missing_top_inverted(height, crop, move_y) == move_y - crop[1][2]

missing_top(height, crop, move_y) == crop[1][2] - move_y

\* Faulty variant of bounds_alert: rows missing at the top are not looked at.
bounds_alert_bottom_only(running, height, crop, move_y) ==
    running /\ missing_bottom(height, crop, move_y) < 0

\* stabilize_image: whether the FrameAlignTag-2 record is logged.
bounds_alert(running, height, crop, move_y) ==
    running /\ (missing_bottom(height, crop, move_y) < 0
                \/ missing_top(height, crop, move_y) < 0)

\* film_hole_template of the run, as start_convert validated it.
film_hole_template ==
    CHOOSE t \in TemplateDims : validate_template_size(t) = template_valid

\* --------------------------------------------------- frame_generation_loop
\* Faulty variant of frame_loop_branch: the exit request is never looked at.
frame_loop_branch_no_exit_check(cf, start, count, exitreq) ==
    IF cf >= start + count THEN "range_done" ELSE "frame"

\* Which part of frame_generation_loop runs: the end-of-range exit, the
\* cancellation exit, or the processing of one frame.
frame_loop_branch(cf, start, count, exitreq) ==
    IF cf >= start + count THEN "range_done"
    ELSE IF exitreq THEN "cancelled"
    ELSE "frame"

\* Size of the image after the transforms (rotation and stabilization keep
\* the size; then crop_image or even_image).
output_size(img, cropping) ==
    IF cropping THEN crop_image(img, CropRectangle[1], CropRectangle[2])
    ELSE even_image(img)

odd_size(out) == out[1] % 2 = 1 \/ out[2] % 2 = 1

\* Faulty variant of target_number: the index is used as the number.
target_number_no_offset(cf) == cf

\* The frame number under which the image read at index cf is written.
target_number(cf) == first_absolute_frame + cf

FrameTimerTaken == [timers EXCEPT !["frame_generation_loop"] = @ - 1]

FrameRangeDone ==
    /\ app_status_label' = "Frame generation OK"
    /\ TargetDirFileList' = target_files
    /\ CurrentFrame' = CurrentFrame - 1
    /\ IF project_config.GenerateVideo
       THEN /\ ffmpeg_success' = FALSE
            /\ ffmpeg_encoding_status' = "Pending"
            /\ timers' = Schedule(FrameTimerTaken, "video_generation_loop")
            /\ UNCHANGED <<ConvertLoopRunning, ConvertLoopExitRequested,
                           BatchJobRunning, job_list, Go_btn, start_batch_btn,
                           last_end>>
       ELSE /\ ApplyExit(generation_exit(BatchJobRunning, ConvertLoopExitRequested,
                                         CurrentJobEntry, job_list, FrameTimerTaken))
            /\ last_end' = RunEnd(odd_at # -1)
            /\ UNCHANGED <<ffmpeg_success, ffmpeg_encoding_status>>
    /\ img_read' = NotRead
    /\ UNCHANGED <<project_config, target_files, written, skipped, odd_at,
                   out_of_bounds, late_frames>>

FrameCancelled ==
    /\ app_status_label' = "Cancelled by user"
    /\ ApplyExit(generation_exit(BatchJobRunning, ConvertLoopExitRequested,
                                 CurrentJobEntry, job_list, FrameTimerTaken))
    /\ last_end' = RunEnd(FALSE)
    /\ UNCHANGED <<project_config, CurrentFrame, TargetDirFileList, target_files,
                   ffmpeg_success, ffmpeg_encoding_status, written, skipped,
                   odd_at, out_of_bounds, late_frames>>
    /\ img_read' = NotRead

\* Faulty variant of FrameReadFailed: the read failure ends the range.
FrameReadFailed_fatal ==
    /\ skipped' = skipped \cup {CurrentFrame}
    /\ CurrentFrame' = StartFrame + frames_to_encode
    /\ project_config' = [project_config EXCEPT !.CurrentFrame = StartFrame + frames_to_encode]
    /\ timers' = Schedule(FrameTimerTaken, "frame_generation_loop")
    /\ img_read' = NoImage
    /\ UNCHANGED <<target_files, written, odd_at, out_of_bounds, app_status_label>>

\* imread returned None: "Error reading frame %i, skipping".
FrameReadFailed ==
    /\ skipped' = skipped \cup {CurrentFrame}
    /\ CurrentFrame' = CurrentFrame + 1
    /\ project_config' = [project_config EXCEPT !.CurrentFrame = CurrentFrame + 1]
    /\ timers' = Schedule(FrameTimerTaken, "frame_generation_loop")
    /\ img_read' = NoImage
    /\ UNCHANGED <<target_files, written, odd_at, out_of_bounds, app_status_label>>

\* The image img was read: transform, check the size, write, go on.
FrameTransformed(img) ==
    LET out == output_size(img, project_config.PerformCropping)
        odd == odd_size(out)
        cf == IF odd THEN StartFrame + frames_to_encode - 1 ELSE CurrentFrame
        move == stabilize_image(img, film_hole_template, get_image_left_stripe(img),
                                pattern_pos)
    IN /\ UNCHANGED skipped
       /\ img_read' = img
       /\ out_of_bounds' =
              IF perform_stabilization
                 /\ bounds_alert(ConvertLoopRunning, img[2], CropRectangle, move[2])
              THEN out_of_bounds + 1 ELSE out_of_bounds
       /\ IF out[1] = 0 \/ out[2] = 0
          THEN \* cv2.imwrite raises on an empty image
               /\ CurrentFrame' = cf
               /\ app_status_label' = IF odd THEN "odd size" ELSE app_status_label
               /\ timers' = FrameTimerTaken
               /\ odd_at' = IF odd THEN Len(written) + Cardinality(skipped) ELSE odd_at
               /\ UNCHANGED <<project_config, target_files, written>>
          ELSE /\ target_files' = target_files \cup {target_number(cf)}
               /\ written' = Append(written, target_number(cf))
               /\ app_status_label' = "Generating frames"
               /\ CurrentFrame' = cf + 1
               /\ project_config' = [project_config EXCEPT !.CurrentFrame = cf + 1]
               /\ timers' = Schedule(FrameTimerTaken, "frame_generation_loop")
               /\ odd_at' = IF odd THEN Len(written) + 1 + Cardinality(skipped)
                                   ELSE odd_at

FrameProcess ==
    /\ late_frames' = late_frames + IF ConvertLoopExitRequested THEN 1 ELSE 0
    /\ UNCHANGED <<ConvertLoopRunning, ConvertLoopExitRequested, BatchJobRunning,
                   Go_btn, start_batch_btn, TargetDirFileList,
                   ffmpeg_success, ffmpeg_encoding_status, last_end>>
    /\ \E img \in ReadOutcomes :
        IF img = NoImage THEN FrameReadFailed ELSE FrameTransformed(img)
    /\ job_list' = Store(job_list, project_config')

frame_generation_loop ==
    /\ main_pc = "idle"
    /\ timers["frame_generation_loop"] > 0
    /\ LET branch == frame_loop_branch(CurrentFrame, StartFrame, frames_to_encode,
                                       ConvertLoopExitRequested)
       IN CASE branch = "range_done" -> FrameRangeDone
            [] branch = "cancelled" -> FrameCancelled
            [] branch = "frame" -> FrameProcess
    /\ UNCHANGED <<CurrentJobEntry, project_config_from_file, StartFrame,
                   frames_to_encode, video_file, ffmpeg_process, threads,
                   main_pc, starts, invocations, cancelled_encode,
                   operator_vars, runner_vars>>
    /\ line' = "none"

\* --------------------------------------------------- video_generation_loop
VideoTimerTaken == [timers EXCEPT !["video_generation_loop"] = @ - 1]

\* Pending: the special cases "No frames to encode" and "Frames missing".
encoder_precondition(count, start, listing) ==
    IF count = 0 THEN "no_frames"
    ELSE IF ~valid_generated_frame_range(start, count, listing) THEN "frames_missing"
    ELSE "ok"

VideoPendingRefused ==
    /\ ffmpeg_encoding_status = "Pending"
    /\ encoder_precondition(frames_to_encode, StartFrame, TargetDirFileList) # "ok"
    /\ app_status_label' = "No frames to encode"
    /\ ApplyExit(generation_exit(BatchJobRunning, ConvertLoopExitRequested,
                                 CurrentJobEntry, job_list, VideoTimerTaken))
    /\ last_end' = RunEnd(TRUE)
    /\ UNCHANGED <<ffmpeg_encoding_status, ffmpeg_success, ffmpeg_process,
                   threads, main_pc, video_file, invocations, cancelled_encode>>
    /\ line' = "none"
    /\ img_read' = NotRead

\* Pending, up to ffmpeg_encoding_thread.start().
VideoPendingStart ==
    /\ ffmpeg_encoding_status = "Pending"
    /\ encoder_precondition(frames_to_encode, StartFrame, TargetDirFileList) = "ok"
    /\ \E t \in 1..MaxThreads :
        /\ threads[t].pc = "idle"
        /\ \A u \in 1..(t - 1) : threads[u].pc # "idle"
        /\ threads' = [threads EXCEPT ![t] =
                          [pc |-> "popen", proc |-> "none", rc |-> 0,
                           checked |-> <<StartFrame, frames_to_encode>>,
                           args |-> <<0, 0>>]]
    /\ ffmpeg_success' = FALSE
    /\ invocations' = invocations + 1
    /\ main_pc' = "thread_started"
    /\ timers' = VideoTimerTaken
    /\ UNCHANGED <<ffmpeg_encoding_status, ffmpeg_process, video_file,
                   app_status_label, ConvertLoopRunning, ConvertLoopExitRequested,
                   BatchJobRunning, job_list, Go_btn, start_batch_btn,
                   last_end, cancelled_encode>>
    /\ line' = "none"
    /\ img_read' = NotRead

\* Pending, after the thread was started: the state becomes Running and the
\* poll is scheduled.
VideoSetRunning ==
    /\ main_pc = "thread_started"
    /\ main_pc' = "idle"
    /\ ffmpeg_encoding_status' = "Running"
    /\ timers' = Schedule(timers, "video_generation_loop")
    /\ UNCHANGED <<job_list, CurrentJobEntry, project_config,
                   project_config_from_file, BatchJobRunning, ConvertLoopRunning,
                   ConvertLoopExitRequested, CurrentFrame, StartFrame,
                   frames_to_encode, TargetDirFileList, target_files, video_file,
                   ffmpeg_success, ffmpeg_process, threads, starts, Go_btn,
                   start_batch_btn, app_status_label, written, skipped, odd_at, out_of_bounds,
                   late_frames, invocations, last_end, cancelled_encode,
                   operator_vars, runner_vars>>
    /\ line' = "none"
    /\ img_read' = NotRead

\* Popen.terminate() on the process of thread slot p.
terminate(thr, p) ==
    IF thr[p].proc = "running"
    THEN [thr EXCEPT ![p].proc = "exited", ![p].rc = 1]
    ELSE thr

\* Running with the exit request set.
VideoCancel ==
    /\ ffmpeg_encoding_status = "Running"
    /\ ConvertLoopExitRequested
    /\ IF ffmpeg_process = 0
       THEN \* NameError: ffmpeg_process is not bound yet
            /\ timers' = VideoTimerTaken
            /\ UNCHANGED <<threads, app_status_label, ConvertLoopRunning,
                           ConvertLoopExitRequested, BatchJobRunning, job_list,
                           Go_btn, start_batch_btn, last_end, video_file,
                           cancelled_encode>>
       ELSE /\ threads' = terminate(threads, ffmpeg_process)
            /\ app_status_label' = "Cancelled by user"
            /\ ApplyExit(generation_exit(BatchJobRunning, ConvertLoopExitRequested,
                                         CurrentJobEntry, job_list, VideoTimerTaken))
            /\ last_end' = RunEnd(FALSE)
            /\ video_file' = FALSE      \* os.remove
            /\ cancelled_encode' = TRUE
    /\ UNCHANGED <<ffmpeg_encoding_status, ffmpeg_success, ffmpeg_process,
                   main_pc, invocations>>
    /\ line' = "none"
    /\ img_read' = NotRead

\* Status text after one line of encoder output; "raise" when parsing the
\* line raises IndexError.
parse_progress(l) ==
    CASE l = "empty" -> "No feedback from ffmpeg"
      [] l = "frame" -> "Generating video"
      [] l = "garbage" -> "ffmpeg sync lost"
      [] l = "single" -> "raise"

\* Running without exit request: one readline() of the encoder output.
VideoPoll ==
    /\ ffmpeg_encoding_status = "Running"
    /\ ~ConvertLoopExitRequested
    /\ IF ffmpeg_process = 0
       THEN \* NameError
            /\ timers' = VideoTimerTaken
            /\ line' = "none"
            /\ img_read' = NotRead
            /\ UNCHANGED app_status_label
       ELSE \E l \in IF threads[ffmpeg_process].proc = "running"
                     THEN LineKinds ELSE {"empty"} :
            /\ line' = l
            /\ img_read' = NotRead
            /\ IF parse_progress(l) = "raise"
               THEN /\ timers' = VideoTimerTaken
                    /\ UNCHANGED app_status_label
               ELSE /\ app_status_label' = parse_progress(l)
                    /\ timers' = Schedule(VideoTimerTaken, "video_generation_loop")
    /\ UNCHANGED <<ffmpeg_encoding_status, ffmpeg_success, ffmpeg_process,
                   threads, main_pc, video_file, ConvertLoopRunning,
                   ConvertLoopExitRequested, BatchJobRunning, job_list, Go_btn,
                   start_batch_btn, last_end, invocations, cancelled_encode>>

VideoCompleted ==
    /\ ffmpeg_encoding_status = "Completed"
    /\ app_status_label' = IF ffmpeg_success THEN "Video generated OK"
                                             ELSE "Video generation failed"
    /\ ApplyExit(generation_exit(BatchJobRunning, ConvertLoopExitRequested,
                                 CurrentJobEntry, job_list, VideoTimerTaken))
    /\ last_end' = RunEnd(~ffmpeg_success)
    /\ UNCHANGED <<ffmpeg_encoding_status, ffmpeg_success, ffmpeg_process,
                   threads, main_pc, video_file, invocations, cancelled_encode>>
    /\ line' = "none"
    /\ img_read' = NotRead

video_generation_loop ==
    /\ main_pc = "idle"
    /\ timers["video_generation_loop"] > 0
    /\ \/ VideoPendingRefused
       \/ VideoPendingStart
       \/ VideoCancel
       \/ VideoPoll
       \/ VideoCompleted
    /\ UNCHANGED <<CurrentJobEntry, project_config, project_config_from_file,
                   CurrentFrame, StartFrame, frames_to_encode, TargetDirFileList,
                   target_files, starts, written, skipped, odd_at, out_of_bounds,
                   late_frames, operator_vars, runner_vars>>

\* ------------------------------------------------- call_ffmpeg (worker)
MainUntouched ==
    /\ line' = "none"
    /\ img_read' = NotRead
    /\ UNCHANGED <<job_list, CurrentJobEntry, project_config,
                project_config_from_file, BatchJobRunning, ConvertLoopRunning,
                ConvertLoopExitRequested, CurrentFrame, StartFrame,
                frames_to_encode, TargetDirFileList, target_files, main_pc,
                   timers, starts, Go_btn, start_batch_btn, app_status_label,
                   written, skipped, odd_at, out_of_bounds, late_frames, invocations, last_end,
                   cancelled_encode, operator_vars, runner_vars>>

\* The -start_number and the -frames:v limit of cmd_ffmpeg, -1 when the
\* command carries no limit.
encoder_args(start, count) ==
    <<start + first_absolute_frame, IF count > 0 THEN count ELSE -1>>

\* ffmpeg_process = sp.Popen(cmd_ffmpeg, ...), with the command built from
\* the globals as the thread finds them. Without the encoder binary Popen
\* raises FileNotFoundError, which ends the thread before ffmpeg_process is
\* assigned.
ThreadPopen(t) ==
    /\ threads[t].pc = "popen"
    /\ IF ffmpeg_installed
       THEN /\ threads' = [threads EXCEPT ![t].pc = "wait", ![t].proc = "running",
                                          ![t].args = encoder_args(StartFrame,
                                                                   frames_to_encode)]
            /\ ffmpeg_process' = t
       ELSE /\ threads' = [threads EXCEPT ![t] = IdleThread]
            /\ UNCHANGED ffmpeg_process
    /\ UNCHANGED <<video_file, ffmpeg_encoding_status, ffmpeg_success>>
    /\ MainUntouched

\* The encoder process creates its output file.
EncoderWrites(t) ==
    /\ threads[t].proc = "running"
    /\ ~video_file
    /\ video_file' = TRUE
    /\ UNCHANGED <<threads, ffmpeg_process, ffmpeg_encoding_status, ffmpeg_success>>
    /\ MainUntouched

\* The encoder process ends by itself with exit code rc.
EncoderExits(t) ==
    /\ threads[t].proc = "running"
    /\ \E rc \in {0, 1} :
        /\ threads' = [threads EXCEPT ![t].proc = "exited", ![t].rc = rc]
        /\ video_file' = IF rc = 0 THEN TRUE ELSE video_file
    /\ UNCHANGED <<ffmpeg_process, ffmpeg_encoding_status, ffmpeg_success>>
    /\ MainUntouched

\* ffmpeg_success = ffmpeg_process.wait() == 0
ThreadWait(t) ==
    /\ threads[t].pc = "wait"
    /\ threads[t].proc = "exited"
    /\ ffmpeg_success' = (threads[t].rc = 0)
    /\ threads' = [threads EXCEPT ![t].pc = "set_completed"]
    /\ UNCHANGED <<video_file, ffmpeg_process, ffmpeg_encoding_status>>
    /\ MainUntouched

\* ffmpeg_encoding_status = ffmpeg_state.Completed
ThreadCompleted(t) ==
    /\ threads[t].pc = "set_completed"
    /\ ffmpeg_encoding_status' = "Completed"
    /\ threads' = [threads EXCEPT ![t].pc = "idle"]
    /\ UNCHANGED <<video_file, ffmpeg_process, ffmpeg_success>>
    /\ MainUntouched

call_ffmpeg ==
    \E t \in 1..MaxThreads :
        \/ ThreadPopen(t)
        \/ ThreadWait(t)
        \/ ThreadCompleted(t)

encoder_process ==
    \E t \in 1..MaxThreads :
        \/ EncoderWrites(t)
        \/ EncoderExits(t)

\* ------------------------------------------- the operator and the queue
\* The operator changes the settings and the queue only while every widget
\* is enabled and no batch is running.
SettingsEnabled ==
    /\ main_pc = "idle"
    /\ Go_btn /\ start_batch_btn
    /\ ~BatchJobRunning /\ ~ConvertLoopRunning
    /\ edits < MaxEdits

\* Settings the operator can put in the widgets.
EditConfigs == {CfgAll, CfgRange, CfgEmpty}

\* What the operator's edits leave alone.
edit_unchanged ==
    <<project_config_from_file, BatchJobRunning, ConvertLoopRunning,
      ConvertLoopExitRequested, CurrentFrame, StartFrame, TargetDirFileList,
      target_files, video_file, ffmpeg_encoding_status, ffmpeg_success,
      ffmpeg_process, threads, main_pc, timers, starts, Go_btn, start_batch_btn,
      app_status_label, written, skipped, odd_at, out_of_bounds, late_frames, invocations,
      last_end, cancelled_encode, template_valid, suspends,
      suspend_on_joblist_end, probe, transform_vars, panel_vars>>

\* The widget callbacks that assign items of project_config
\* (encode_all_frames_selection, generate_video_selection, ...).
EditSettings ==
    /\ SettingsEnabled
    /\ \E cfg \in EditConfigs :
        LET new == [cfg EXCEPT !.id = project_config.id,
                               !.CurrentFrame = project_config.CurrentFrame]
        IN /\ new # project_config
           /\ project_config' = new
           /\ job_list' = Store(job_list, new)
    /\ edits' = edits + 1
    /\ queue_op' = "edit"
    /\ UNCHANGED <<CurrentJobEntry, frames_to_encode, selected>>
    /\ line' = "none"
    /\ img_read' = NotRead
    /\ UNCHANGED edit_unchanged

\* The part of entry_name that the settings of the model decide.
entry_name(cfg) ==
    <<IF cfg.EncodeAllFrames THEN 0 ELSE cfg.FrameFrom,
      IF cfg.EncodeAllFrames THEN NFrames ELSE cfg.FrameTo,
      cfg.GenerateVideo>>

\* The smallest job number not in use.
FreshId(jobs) ==
    CHOOSE n \in 1..(Len(jobs) + 1) :
        /\ \A i \in 1..Len(jobs) : jobs[i].project.id # n
        /\ \A m \in 1..(n - 1) : \E i \in 1..Len(jobs) : jobs[i].project.id = m

\* add_job_btn: job_list_add_current.
job_list_add_current ==
    /\ SettingsEnabled
    /\ Len(job_list) < MaxJobs
    /\ frames_to_encode' = IF project_config.EncodeAllFrames THEN NFrames
                           ELSE project_config.FrameTo - project_config.FrameFrom + 1
    /\ \E exists \in IF \E i \in 1..Len(job_list) :
                            entry_name(job_list[i].project) = entry_name(project_config)
                      THEN BOOLEAN ELSE {FALSE} :
        IF exists
        THEN \* "Job already exists"
             UNCHANGED <<job_list, project_config>>
        ELSE LET cfg == IF project_config_from_file      \* save_project_config
                        THEN [project_config EXCEPT !.CurrentFrame = CurrentFrame]
                        ELSE project_config
             IN /\ project_config' = cfg
                /\ job_list' = Append(Store(job_list, cfg),
                                      [project |-> copy_config(cfg, FreshId(job_list)),
                                       done |-> FALSE])
    /\ edits' = edits + 1
    /\ queue_op' = "add"
    /\ UNCHANGED <<CurrentJobEntry, selected>>
    /\ line' = "none"
    /\ img_read' = NotRead
    /\ UNCHANGED edit_unchanged

\* The sequence jobs without its entry i.
Remove(jobs, i) ==
    [k \in 1..(Len(jobs) - 1) |-> IF k < i THEN jobs[k] ELSE jobs[k + 1]]

\* delete_job_btn: job_list_delete_selected, on the entry the operator
\* selects.  CurrentJobEntry names a job: it follows its job in the list.
job_list_delete_selected ==
    /\ SettingsEnabled
    /\ \E i \in 1..Len(job_list) :
        /\ job_list' = Remove(job_list, i)
        /\ CurrentJobEntry' = IF CurrentJobEntry = i THEN -1
                              ELSE IF CurrentJobEntry > i THEN CurrentJobEntry - 1
                              ELSE CurrentJobEntry
    /\ selected' = 0
    /\ edits' = edits + 1
    /\ queue_op' = "delete"
    /\ UNCHANGED <<project_config, frames_to_encode>>
    /\ line' = "none"
    /\ img_read' = NotRead
    /\ UNCHANGED edit_unchanged

\* rerun_job_btn: job_list_rerun_selected, on the entry the operator selects.
job_list_rerun_selected ==
    /\ SettingsEnabled
    /\ \E i \in 1..Len(job_list) :
        /\ selected' = i
        /\ job_list' = [job_list EXCEPT ![i].done = FALSE]
    /\ edits' = edits + 1
    /\ queue_op' = "rerun"
    /\ UNCHANGED <<project_config, frames_to_encode, CurrentJobEntry>>
    /\ line' = "none"
    /\ img_read' = NotRead
    /\ UNCHANGED edit_unchanged

\* start_batch_btn pressed while BatchJobRunning and no conversion runs:
\* between two jobs, or on a job that start_convert did not start.
start_processing_job_list_in_batch ==
    /\ main_pc = "idle"
    /\ start_batch_btn
    /\ BatchJobRunning /\ ~ConvertLoopRunning
    /\ job_processing_loop(TRUE, FALSE, TRUE, timers, suspends)
    /\ UNCHANGED <<target_files, video_file, ffmpeg_process, threads, main_pc,
                   starts, operator_vars>>
    /\ line' = "none"
    /\ img_read' = NotRead

\* ----------------------------------------- support functions, applied
\* Inputs of the support functions: a template tw x th, a left stripe
\* iw x ih, the place <<x, y>> of the best match, the height y2 of a second
\* match, BatchJobRunning, the operator's answer and the film type.
PureInputs ==
    [tw : 1..MaxDim, th : 1..MaxDim, iw : 1..MaxDim, ih : 1..MaxDim,
     x : 0..(MaxDim - 1), y : 0..(MaxDim - 1), y2 : 0..(MaxDim - 1),
     batch : BOOLEAN, answer : BOOLEAN, FilmType : {"S8", "R8"}]

\* The place <<x, y>> is one that matchTemplate can report, when it is run.
ConsistentInput(a) ==
    (a.tw < a.iw /\ a.th < a.ih) =>
        <<a.x, a.y>> \in MatchLocations(<<a.tw, a.th>>, <<a.iw, a.ih>>)

\* The frame whose left stripe, a fifth of its width, is iw x ih
\* (set_hole_search_area).
frame_of(a) == <<5 * a.iw, a.ih>>

\* Everything but the probe, the encoder flag, the registry and the locks.
run_unchanged ==
    <<job_list, CurrentJobEntry, project_config, project_config_from_file,
      BatchJobRunning, ConvertLoopRunning, ConvertLoopExitRequested, CurrentFrame,
      StartFrame, frames_to_encode, TargetDirFileList, target_files, video_file,
      ffmpeg_encoding_status, ffmpeg_success, ffmpeg_process, threads, main_pc,
      timers, starts, Go_btn, start_batch_btn, app_status_label, written,
      skipped, odd_at, out_of_bounds, late_frames, invocations, last_end, cancelled_encode,
      template_valid, line, selected, suspend_on_joblist_end, suspends, edits,
      queue_op, img_read, transform_vars>>

pure_unchanged == <<run_unchanged, panel_vars>>

ApplyMatchTemplate ==
    /\ probe.op = "input"
    /\ probe' = [probe EXCEPT !.op = "match_template",
                              !.res = match_template(<<probe.arg.tw, probe.arg.th>>,
                                                     <<probe.arg.iw, probe.arg.ih>>,
                                                     <<probe.arg.x, probe.arg.y>>)]
    /\ UNCHANGED pure_unchanged

ApplyDetermineHoleHeight ==
    /\ probe.op = "input"
    /\ probe' = [probe EXCEPT !.op = "determine_hole_height",
                              !.res = determine_hole_height(
                                          probe.arg.FilmType,
                                          <<probe.arg.x, probe.arg.y>>,
                                          <<probe.arg.x, probe.arg.y2>>,
                                          probe.arg.batch, probe.arg.answer)]
    /\ UNCHANGED pure_unchanged

ApplyStabilizeImage ==
    /\ probe.op = "input"
    /\ probe' = [probe EXCEPT !.op = "stabilize_image",
                              !.res = stabilize_image(frame_of(probe.arg),
                                                      <<probe.arg.tw, probe.arg.th>>,
                                                      <<probe.arg.iw, probe.arg.ih>>,
                                                      <<probe.arg.x, probe.arg.y>>)]
    /\ UNCHANGED pure_unchanged

\* ------------------------------------------ geometry functions, applied
\* An image as the part of the source frame it holds: the place <<x, y>> of
\* its first pixel in the source frame and its size; an empty image holds
\* no pixel and has no place.
Region(x, y, size) ==
    IF size[1] = 0 \/ size[2] = 0
    THEN [x |-> 0, y |-> 0, w |-> size[1], h |-> size[2]]
    ELSE [x |-> x, y |-> y, w |-> size[1], h |-> size[2]]

\* crop_image on the image r: img[Y_start:Y_end, X_start:X_end].
crop_region(r, top_left, botton_right) ==
    Region(r.x + SliceNorm(top_left[1], r.w), r.y + SliceNorm(top_left[2], r.h),
           crop_image(<<r.w, r.h>>, top_left, botton_right))

\* even_image on the image r: img[0:Y_end, 0:X_end], or img itself.
even_region(r) == Region(r.x, r.y, even_image(<<r.w, r.h>>))

\* Inputs of the geometry functions: a frame w x h, a crop rectangle from
\* <<tlx, tly>> to <<brx, bry>>, a pattern th high found at row y.
GeomInputs ==
    [w : 1..MaxDim, h : 1..MaxDim, tlx : 0..MaxDim, tly : 0..MaxDim,
     brx : 0..(MaxDim + 1), bry : 0..(MaxDim + 1), th : 1..MaxDim,
     y : 0..(MaxDim - 1)]

\* The rectangle has 0 <= topLeft <= bottomRight; the pattern lies in the
\* frame.
ConsistentGeom(a) ==
    /\ a.tlx <= a.brx /\ a.tly <= a.bry
    /\ a.y + a.th <= a.h

ApplyCropImage ==
    /\ probe.op = "input"
    /\ probe' = [probe EXCEPT !.op = "crop_image",
                              !.res = crop_region(Region(0, 0, <<probe.arg.w, probe.arg.h>>),
                                                  <<probe.arg.tlx, probe.arg.tly>>,
                                                  <<probe.arg.brx, probe.arg.bry>>)]
    /\ UNCHANGED pure_unchanged

ApplyCropImageTwice ==
    /\ probe.op = "input"
    /\ probe' = [probe EXCEPT !.op = "crop_image twice",
                              !.res = crop_region(
                                          crop_region(Region(0, 0, <<probe.arg.w, probe.arg.h>>),
                                                      <<probe.arg.tlx, probe.arg.tly>>,
                                                      <<probe.arg.brx, probe.arg.bry>>),
                                          <<probe.arg.tlx, probe.arg.tly>>,
                                          <<probe.arg.brx, probe.arg.bry>>)]
    /\ UNCHANGED pure_unchanged

ApplyEvenImage ==
    /\ probe.op = "input"
    /\ probe' = [probe EXCEPT !.op = "even_image",
                              !.res = even_region(Region(0, 0, <<probe.arg.w, probe.arg.h>>))]
    /\ UNCHANGED pure_unchanged

ApplyEvenImageTwice ==
    /\ probe.op = "input"
    /\ probe' = [probe EXCEPT !.op = "even_image twice",
                              !.res = even_region(
                                          even_region(Region(0, 0, <<probe.arg.w, probe.arg.h>>)))]
    /\ UNCHANGED pure_unchanged

\* stabilize_image up to the two missing-row estimates, for a pattern found
\* at row y of the frame (HoleSearchTopLeft added): move_y, missing_bottom
\* and missing_top.
ApplyMissingRows ==
    /\ probe.op = "input"
    /\ LET crop == <<<<probe.arg.tlx, probe.arg.tly>>, <<probe.arg.brx, probe.arg.bry>>>>
           move_y == round_div(expected_pattern_pos[2] * probe.arg.h, 1000) - probe.arg.y
       IN probe' = [probe EXCEPT !.op = "stabilize_image",
                                 !.res = [move_y |-> move_y,
                                          missing_bottom |-> missing_bottom(probe.arg.h, crop, move_y),
                                          missing_top |-> missing_top(probe.arg.h, crop, move_y)]]
    /\ UNCHANGED pure_unchanged

\* ------------------------------------------------ the template registry
template_unchanged == <<run_unchanged, probe, ffmpeg_installed, lock_vars,
                        status_vars>>

\* The template files on disk and the size of the image in each; the file
\* "missing.jpg" does not exist.
TemplateFiles == {"Pattern.S8.jpg", "Pattern.custom.jpg", "missing.jpg"}

isfile(filename) == filename # "missing.jpg"

\* cv2.imread: <<width, height>> of the image, NoImage where it returns None.
imread(filename) ==
    CASE filename = "Pattern.S8.jpg" -> <<40, 60>>
      [] filename = "Pattern.custom.jpg" -> <<30, 50>>
      [] OTHER -> NoImage

\* The scale of a template for an image width, the float width / 2028 kept
\* as the fraction num / den.
template_scale(type, width) ==
    IF type = "custom" THEN [num |-> 1, den |-> 1]
                       ELSE [num |-> width, den |-> 2028]

\* int(x * scale) for x >= 0: the product cut to an integer.
int_scaled(x, scale) == (x * scale.num) \div scale.den

scaled_pair(p, scale) == <<int_scaled(p[1], scale), int_scaled(p[2], scale)>>

\* Template.create
Template_create(name, filename, type, position, width) ==
    LET scale == template_scale(type, width)
        instance == [name |-> name, filename |-> filename, type |-> type,
                     position |-> position, scale |-> scale, size |-> <<0, 0>>,
                     scaled_position |-> <<0, 0>>, scaled_size |-> <<0, 0>>,
                     template |-> NoImage]
    IN IF isfile(filename)
       THEN [instance EXCEPT !.template = imread(filename),
                             !.size = imread(filename),
                             !.scaled_size = scaled_pair(imread(filename), scale),
                             !.scaled_position = scaled_pair(position, scale)]
       ELSE instance

\* Template.refresh: nothing is updated when the image cannot be loaded.
Template_refresh(t, width) ==
    LET new_scale == template_scale(t.type, width)
        template == IF t.template = NoImage THEN imread(t.filename) ELSE t.template
    IN IF template = NoImage
       THEN t
       ELSE [t EXCEPT !.template = template,
                      !.scale = new_scale,
                      !.size = template,
                      !.scaled_size = scaled_pair(template, new_scale),
                      !.scaled_position = scaled_pair(t.position, new_scale)]

\* TemplateList.add, the key "type:name" kept as <<type, name>>.
TemplateList_add(tl, name, filename, type, position) ==
    LET key == <<type, name>>
        target == IF key \in DOMAIN tl.templates
                  THEN Template_refresh([tl.templates[key] EXCEPT
                                             !.filename = filename,
                                             !.position = position],
                                        tl.img_width)
                  ELSE Template_create(name, filename, type, position, tl.img_width)
    IN [tl EXCEPT !.templates = [k \in DOMAIN tl.templates \cup {key} |->
                                    IF k = key THEN target ELSE tl.templates[k]],
                  !.active_template = key]

\* template == self.active_template yields True (dataclass __eq__ over the
\* tuple of fields): the same object is equal to itself; another object is
\* equal when every field is, and the comparison of two loaded images
\* raises ValueError, which leaves remove before the assignment. An active
\* template that was deleted from the registry has a key that no stored
\* template has, so it differs from every template remove can find.
equals_active(tl, template, same_object) ==
    /\ tl.active_template \in DOMAIN tl.templates
    /\ IF same_object
       THEN <<template.type, template.name>> = tl.active_template
       ELSE /\ template = tl.templates[tl.active_template]
            /\ template.template = NoImage

\* TemplateList.remove(template): the entry stored under the key of
\* template is deleted, and then active_template is reset when template
\* equals the active object; same_object tells that template is the object
\* the registry holds under that key.
TemplateList_remove(tl, template, same_object) ==
    LET key == <<template.type, template.name>>
    IN IF key \in DOMAIN tl.templates
       THEN [tl EXCEPT !.templates = [k \in DOMAIN tl.templates \ {key} |->
                                         tl.templates[k]],
                       !.active_template = IF equals_active(tl, template, same_object)
                                           THEN <<>>
                                           ELSE tl.active_template]
       ELSE tl

\* TemplateManager.set_active_template
set_active_template(tl, type, name) ==
    IF <<type, name>> \in DOMAIN tl.templates
    THEN [tl EXCEPT !.active_template = <<type, name>>]
    ELSE tl

\* int(x / scale) for x >= 0.
int_unscaled(x, scale) == (x * scale.den) \div scale.num

\* TemplateManager.set_active_position; a deleted template that is still
\* active takes the assignment and the registry shows nothing of it.
set_active_position(tl, scaled_position) ==
    IF tl.active_template \in DOMAIN tl.templates
    THEN LET t == tl.templates[tl.active_template]
         IN [tl EXCEPT !.templates[tl.active_template] =
                [t EXCEPT !.scaled_position = scaled_position,
                          !.position = <<int_unscaled(scaled_position[1], t.scale),
                                         int_unscaled(scaled_position[2], t.scale)>>]]
    ELSE tl

\* TemplateManager.set_scale_and_refresh_all
set_scale_and_refresh_all(tl, sample_img) ==
    IF DOMAIN tl.templates # {} /\ sample_img # NoImage
    THEN [tl EXCEPT !.img_width = sample_img[1],
                    !.img_height = sample_img[2],
                    !.templates = [k \in DOMAIN tl.templates |->
                                      Template_refresh(tl.templates[k], sample_img[1])]]
    ELSE tl

\* The templates the operator defines and the frames of a source folder.
TemplateTypes == {"S8", "custom"}
TemplatePositions == {<<65, 340>>, <<1, 3>>}
SampleImages == {<<1014, 760>>, <<1521, 1140>>, <<2028, 1520>>}
ScaledPositions == {<<1, 3>>, <<32, 170>>}

\* TemplateManager.add of a template named after its type.
TemplateManager_add ==
    /\ \E type \in TemplateTypes, filename \in TemplateFiles,
          position \in TemplatePositions :
        /\ template_list' = TemplateList_add(template_list, type, filename, type,
                                             position)
        /\ template_op' = [op |-> IF <<type, type>> \in DOMAIN template_list.templates
                                  THEN "add (refresh)" ELSE "add (create)",
                           arg |-> <<type, type>>]
    /\ UNCHANGED template_copy
    /\ UNCHANGED template_unchanged

\* Template.copy() of the active template, kept by the caller.
Template_copy ==
    /\ template_list.active_template \in DOMAIN template_list.templates
    /\ template_copy' = template_list.templates[template_list.active_template]
    /\ template_op' = [op |-> "copy", arg |-> template_list.active_template]
    /\ UNCHANGED template_list
    /\ UNCHANGED template_unchanged

\* TemplateManager.remove of a template of the registry.
TemplateManager_remove ==
    /\ \E key \in DOMAIN template_list.templates :
        /\ template_list' = TemplateList_remove(template_list,
                                 template_list.templates[key], TRUE)
        /\ template_op' = [op |-> "remove", arg |-> key]
    /\ UNCHANGED template_copy
    /\ UNCHANGED template_unchanged

\* TemplateManager.remove of the copy the caller holds.
TemplateManager_remove_copy ==
    /\ template_copy # <<>>
    /\ template_list' = TemplateList_remove(template_list, template_copy, FALSE)
    /\ template_op' = [op |-> "remove (copy)",
                       arg |-> <<template_copy.type, template_copy.name>>]
    /\ UNCHANGED template_copy
    /\ UNCHANGED template_unchanged

\* TemplateManager.set_active_template, which returns whether the key is
\* stored.
TemplateManager_set_active_template ==
    /\ \E type \in TemplateTypes :
        /\ template_list' = set_active_template(template_list, type, type)
        /\ template_op' = [op |-> IF <<type, type>> \in DOMAIN template_list.templates
                                  THEN "set_active_template (True)"
                                  ELSE "set_active_template (False)",
                           arg |-> <<type, type>>]
    /\ UNCHANGED template_copy
    /\ UNCHANGED template_unchanged

\* TemplateManager.set_active_position with a place in the frame.
TemplateManager_set_active_position ==
    /\ template_list.active_template # <<>>
    /\ \E scaled_position \in ScaledPositions :
        /\ template_list' = set_active_position(template_list, scaled_position)
        /\ template_op' = [op |-> "set_active_position", arg |-> scaled_position]
    /\ UNCHANGED template_copy
    /\ UNCHANGED template_unchanged

\* A frame of a new source folder is loaded, or could not be read.
TemplateManager_set_scale_and_refresh_all ==
    /\ \E sample_img \in SampleImages \cup {NoImage} :
        /\ template_list' = set_scale_and_refresh_all(template_list, sample_img)
        /\ template_op' = [op |-> "set_scale_and_refresh_all", arg |-> sample_img]
    /\ UNCHANGED template_copy
    /\ UNCHANGED template_unchanged

\* --------------------------------------------------- the status object
status_unchanged == <<run_unchanged, probe, ffmpeg_installed, template_vars,
                      lock_vars>>

\* self.name = value: the attribute is created when the object has none of
\* that name.
setattr(obj, name, value) ==
    [k \in DOMAIN obj \cup {name} |-> IF k = name THEN value ELSE obj[k]]

StatusMethods ==
    {"start_conversion", "stop_conversion", "request_conversion_exit",
     "clear_conversion_exit_request", "start_correction", "stop_correction",
     "start_batch_job", "stop_batch_job", "enable_batch_autostart",
     "disable_batch_autostart", "set_ui_operational", "set_current_frame"}

\* The object after self.method(arg).
AfterScanStatus_call(self, method, arg) ==
    CASE method = "start_conversion" -> setattr(self, "is_conversion_running", TRUE)
      [] method = "stop_conversion" -> setattr(self, "is_conversion_running", FALSE)
      [] method = "request_conversion_exit" ->
             setattr(self, "is_conversion_loop_exit_requested", TRUE)
      [] method = "clear_conversion_exit_request" ->
             setattr(self, "is_conversion_loop_exit_requested", FALSE)
      [] method = "start_correction" -> setattr(self, "is_correction_loop_running", TRUE)
      [] method = "stop_correction" -> setattr(self, "is_correction_loop_running", FALSE)
      [] method = "start_batch_job" -> setattr(self, "is_batch_job_running", TRUE)
      [] method = "stop_batch_job" -> setattr(self, "is_batch_job_running", FALSE)
      [] method = "enable_batch_autostart" -> setattr(self, "is_batch_autostarted", TRUE)
      [] method = "disable_batch_autostart" -> setattr(self, "is_batch_autostarted", FALSE)
      [] method = "set_ui_operational" -> setattr(self, "is_ui_operational", arg)
      [] method = "set_current_frame" -> setattr(self, "current_frame", arg)

\* A method of the status object is called; set_ui_operational gets a
\* boolean and set_current_frame a frame index.
StatusCall ==
    /\ \E method \in StatusMethods :
        \E arg \in CASE method = "set_ui_operational" -> BOOLEAN
                     [] method = "set_current_frame" -> 0..NFrames
                     [] OTHER -> {0} :
            /\ afterscan_status' = AfterScanStatus_call(afterscan_status, method, arg)
            /\ status_op' = method
    /\ UNCHANGED status_unchanged

\* ------------------------------------------------ the aspect-ratio locks
lock_unchanged == <<run_unchanged, probe, ffmpeg_installed, template_vars,
                    status_vars>>

LockItems == {"Force_4/3", "Force_16/9"}

\* project_config[item] where the item is stored, False otherwise.
stored_lock(config, item) == item \in DOMAIN config /\ config[item]

\* A click on the 4:3 checkbox, which flips force_4_3_crop, and its command.
\* The checkbox is enabled while stabilization is selected.
force_4_3_selection ==
    /\ perform_stabilization
    /\ LET clicked == ~force_4_3_crop
           other == IF clicked THEN FALSE ELSE force_16_9_crop
       IN /\ force_4_3_crop' = clicked
          /\ Force43' = clicked
          /\ force_16_9_crop' = other
          /\ force_config' = [k \in LockItems |->
                                 IF k = "Force_4/3" THEN clicked ELSE other]
    /\ UNCHANGED <<Force169, Rectangle>>
    /\ UNCHANGED lock_unchanged

\* A click on the 16:9 checkbox, which flips force_16_9_crop, and its command.
force_16_9_selection ==
    /\ perform_stabilization
    /\ LET clicked == ~force_16_9_crop
           other == IF clicked THEN FALSE ELSE force_4_3_crop
       IN /\ force_16_9_crop' = clicked
          /\ Force169' = clicked
          /\ force_4_3_crop' = other
          /\ force_config' = [k \in LockItems |->
                                 IF k = "Force_16/9" THEN clicked ELSE other]
    /\ UNCHANGED <<Force43, Rectangle>>
    /\ UNCHANGED lock_unchanged

\* The lock items a project can be stored with: each present or not.
StoredLocks == UNION {[d -> BOOLEAN] : d \in SUBSET LockItems}

\* A project is loaded: project_config is replaced by the stored one and
\* decode_project_config sets the two checkboxes from it, 4:3 first.
decode_project_config ==
    /\ \E stored \in StoredLocks :
        /\ force_config' = stored
        /\ force_4_3_crop' = stored_lock(stored, "Force_4/3")
        /\ force_16_9_crop' = IF stored_lock(stored, "Force_4/3") THEN FALSE
                              ELSE stored_lock(stored, "Force_16/9")
    /\ UNCHANGED <<Force43, Force169, Rectangle>>
    /\ UNCHANGED lock_unchanged

\* The image the rectangle is drawn on and the places of the mouse.
original_image == <<16, 12>>
MousePoints == {<<4, 3>>, <<3, 4>>, <<16, 9>>, <<12, 5>>}

\* The end point moved to the aspect ratio num/100: x = int(y * ratio) when
\* y * ratio > x, y = int(x / ratio) otherwise.
lock_point(x, y, num) ==
    IF y * num > x * 100 THEN <<(y * num) \div 100, y>>
                         ELSE <<x, (x * 100) \div num>>

\* The lock draw_rectangle applies to the end point: 4:3 before 16:9.
lock_applied(f43, f169, IsCropping) ==
    IF f43 /\ IsCropping THEN "4:3"
    ELSE IF f169 /\ IsCropping THEN "16:9"
    ELSE "none"

\* EVENT_LBUTTONUP of a rectangle started at <<ix, iy>>.
draw_rectangle ==
    /\ \E start \in {<<0, 0>>, <<2, 2>>}, end \in MousePoints, IsCropping \in BOOLEAN :
        LET applied == lock_applied(Force43, Force169, IsCropping)
            e == CASE applied = "4:3" -> lock_point(end[1], end[2], 133)
                   [] applied = "16:9" -> lock_point(end[1], end[2], 178)
                   [] OTHER -> end
        IN Rectangle' =
               <<<<Max(0, Min(start[1], e[1])), Max(0, Min(start[2], e[2]))>>,
                 <<Min(original_image[1], Max(start[1], e[1])),
                   Min(original_image[2], Max(start[2], e[2]))>>>>
    /\ UNCHANGED <<force_4_3_crop, force_16_9_crop, Force43, Force169, force_config>>
    /\ UNCHANGED lock_unchanged

\* ------------------------------------------------------ the specification
Next ==
    \/ GoPress
    \/ start_processing_job_list
    \/ JobProcessingLoopTimer
    \/ frame_generation_loop
    \/ video_generation_loop
    \/ VideoSetRunning
    \/ call_ffmpeg
    \/ encoder_process

Spec == Init /\ [][Next]_vars

\* The program with an operator who also edits the settings and the queue
\* and presses start_batch_btn between two jobs.
QueueLists ==
    {[i \in 1..(MaxJobs - 1) |->
        [project |-> copy_config(IF i = MaxJobs - 1 THEN c ELSE CfgRange, i),
         done |-> d[i]]] :
     d \in [1..(MaxJobs - 1) -> BOOLEAN], c \in {CfgAll, CfgEmpty}}

InitQueue ==
    /\ job_list \in QueueLists
    /\ project_config = CfgAll
    /\ suspend_on_joblist_end \in BOOLEAN
    /\ probe = NoProbe
    /\ InitTransforms
    /\ InitPanel
    /\ InitIdle

NextQueue ==
    \/ Next
    \/ EditSettings
    \/ job_list_add_current
    \/ job_list_delete_selected
    \/ job_list_rerun_selected
    \/ start_processing_job_list_in_batch

SpecQueue == InitQueue /\ [][NextQueue]_vars

\* The program with stabilization enabled: the crop rectangle is the one of
\* the project or covers a whole frame, and the film hole sits at the same
\* place of the left stripe in every frame.
CropRectangles ==
    {<<CropTopLeft, CropBottomRight>>} \cup {<<<<0, 0>>, d>> : d \in FrameDims}

PatternPositions ==
    UNION {MatchLocations(t, get_image_left_stripe(d)) :
           t \in {u \in TemplateDims : validate_template_size(u)}, d \in FrameDims}

InitStab ==
    /\ probe = NoProbe
    /\ job_list \in JobLists
    /\ project_config \in StartConfigs
    /\ suspend_on_joblist_end = FALSE
    /\ perform_stabilization = TRUE
    /\ CropRectangle \in CropRectangles
    /\ pattern_pos \in PatternPositions
    /\ InitPanel
    /\ InitIdle

SpecStab == InitStab /\ [][Next]_vars

\* The program whatever the search for the encoder found at start-up. The
\* settings come from the project file or from a job as they were stored:
\* decode_project_config sets generate_video from the stored GenerateVideo
\* item, and only the checkbox is disabled when the encoder is missing.
InitStartup ==
    /\ probe = NoProbe
    /\ InitTransforms
    /\ ffmpeg_installed \in BOOLEAN
    /\ InitTemplateList
    /\ InitLocks
    /\ InitStatus
    /\ job_list \in JobLists
    /\ project_config \in StartConfigs
    /\ suspend_on_joblist_end = FALSE
    /\ InitIdle

SpecStartup == InitStartup /\ [][Next]_vars

\* The geometry functions, each applied to every input.
InitGeom ==
    /\ job_list = <<>>
    /\ project_config = CfgAll
    /\ suspend_on_joblist_end = FALSE
    /\ InitTransforms
    /\ InitPanel
    /\ probe \in {[op |-> "input", arg |-> a, res |-> <<>>] :
                     a \in {b \in GeomInputs : ConsistentGeom(b)}}
    /\ InitIdle

NextGeom ==
    \/ ApplyCropImage
    \/ ApplyCropImageTwice
    \/ ApplyEvenImage
    \/ ApplyEvenImageTwice
    \/ ApplyMissingRows

SpecGeom == InitGeom /\ [][NextGeom]_vars

\* The template registry: templates added, removed and refreshed.
InitTemplates ==
    /\ probe = NoProbe
    /\ job_list = <<>>
    /\ project_config = CfgAll
    /\ suspend_on_joblist_end = FALSE
    /\ InitTransforms
    /\ InitPanel
    /\ InitIdle

NextTemplates ==
    \/ TemplateManager_add
    \/ TemplateManager_remove
    \/ TemplateManager_set_scale_and_refresh_all

SpecTemplates == InitTemplates /\ [][NextTemplates]_vars

\* The registry under the calls that choose and delete the active template.
NextActive ==
    \/ TemplateManager_add
    \/ Template_copy
    \/ TemplateManager_remove
    \/ TemplateManager_remove_copy
    \/ TemplateManager_set_active_template

SpecActive == InitTemplates /\ [][NextActive]_vars

\* The registry under the calls that place and rescale the active template.
NextPosition ==
    \/ TemplateManager_add
    \/ TemplateManager_set_active_position
    \/ TemplateManager_set_scale_and_refresh_all

SpecPosition == InitTemplates /\ [][NextPosition]_vars

\* The status object, any of its methods called in any order.
InitStatusObject ==
    /\ probe = NoProbe
    /\ job_list = <<>>
    /\ project_config = CfgAll
    /\ suspend_on_joblist_end = FALSE
    /\ InitTransforms
    /\ InitPanel
    /\ InitIdle

NextStatus == StatusCall

SpecStatus == InitStatusObject /\ [][NextStatus]_vars

\* The locks panel with stabilization selected: clicks on the two
\* checkboxes, project loads and rectangles drawn with the mouse.
InitLockPanel ==
    /\ probe = NoProbe
    /\ job_list = <<>>
    /\ project_config = CfgAll
    /\ suspend_on_joblist_end = FALSE
    /\ perform_stabilization = TRUE
    /\ CropRectangle = <<CropTopLeft, CropBottomRight>>
    /\ pattern_pos = <<0, 0>>
    /\ InitPanel
    /\ InitIdle

NextLocks ==
    \/ force_4_3_selection
    \/ force_16_9_selection
    \/ decode_project_config
    \/ draw_rectangle

SpecLocks == InitLockPanel /\ [][NextLocks]_vars

\* The support functions, each applied to every input.
InitPure ==
    /\ job_list = <<>>
    /\ project_config = CfgAll
    /\ suspend_on_joblist_end = FALSE
    /\ InitTransforms
    /\ InitPanel
    /\ probe \in {[op |-> "input", arg |-> a, res |-> <<>>] :
                     a \in {b \in PureInputs : ConsistentInput(b)}}
    /\ InitIdle

NextPure ==
    \/ ApplyMatchTemplate
    \/ ApplyDetermineHoleHeight
    \/ ApplyStabilizeImage

SpecPure == InitPure /\ [][NextPure]_vars

TypeOK ==
    /\ CurrentJobEntry \in {-1} \cup (1..Len(job_list))
    /\ timers \in [Callbacks -> 0..3]
    /\ ffmpeg_encoding_status \in {"Pending", "Running", "Completed"}
    /\ ffmpeg_process \in 0..MaxThreads
    /\ late_frames \in 0..NFrames
    /\ line \in LineKinds \cup {"none"}
    /\ selected \in 0..Len(job_list)
    /\ edits \in 0..MaxEdits
    /\ template_valid \in BOOLEAN
    /\ suspend_on_joblist_end \in BOOLEAN
    /\ suspends \in Nat

\* ================================================================ claims
\* Steps named by the claims.
\* The queue runner starts a job: a conversion starts inside a batch.
JobStartStep == ~ConvertLoopRunning /\ ConvertLoopRunning' /\ BatchJobRunning'

\* frame_generation_loop leaves through its end-of-range exit.
FrameGenEndStep ==
    /\ timers'["frame_generation_loop"] = timers["frame_generation_loop"] - 1
    /\ CurrentFrame >= StartFrame + frames_to_encode
    /\ app_status_label' = "Frame generation OK"

\* video_generation_loop runs with the encoding state Pending.
VideoPendingStep ==
    /\ main_pc = "idle"
    /\ ffmpeg_encoding_status = "Pending"
    /\ timers'["video_generation_loop"] = timers["video_generation_loop"] - 1

\* The encoder precondition fails on the directory as it is: no frame to
\* encode, or a file of the range is absent.
PreconditionViolated ==
    \/ frames_to_encode = 0
    \/ \E i \in 0..(frames_to_encode - 1) :
           first_absolute_frame + StartFrame + i \notin target_files

FailedLabels == {"odd size", "No frames to encode", "Video generation failed"}

\* ---------------------------------------------------------------- C1
\* C1: in a batch the queue runner starts the first job that is not done
\* (every job before it is done), one job at a time (the current job does
\* not change while a conversion runs), and the entry of a job that is
\* done is never modified.
C1_RunsNotDoneJobsInOrder ==
    [][ /\ JobStartStep =>
            /\ CurrentJobEntry' \in 1..Len(job_list)
            /\ ~job_list[CurrentJobEntry'].done
            /\ \A k \in 1..(CurrentJobEntry' - 1) : job_list[k].done
        /\ (ConvertLoopRunning /\ ConvertLoopRunning') =>
            CurrentJobEntry' = CurrentJobEntry
        /\ \A j \in 1..Len(job_list) :
            job_list[j].done => job_list'[j] = job_list[j]
      ]_vars

\* Job 3 runs right after job 1 ended, job 2 having been done from the start.
C1_Witness ==
    /\ Len(job_list) >= 3
    /\ BatchJobRunning /\ ConvertLoopRunning
    /\ CurrentJobEntry = 3
    /\ last_end.job = 1
    /\ job_list[1].done /\ job_list[2].done /\ ~job_list[3].done

\* ---------------------------------------------------------------- C2
\* C2: the encoding state never goes from Completed to Running, and becomes
\* Completed only from Running.
C2_PendingRunningCompleted ==
    [][ /\ ffmpeg_encoding_status = "Completed" => ffmpeg_encoding_status' # "Running"
        /\ (ffmpeg_encoding_status' = "Completed" /\ ffmpeg_encoding_status # "Completed")
              => ffmpeg_encoding_status = "Running"
      ]_vars

\* ---------------------------------------------------------------- C3
\* C3 (as stated): when video_generation_loop runs in the Pending state
\* and the precondition is violated, it reports it, starts no encoder
\* (spawn count 0), and the state becomes Completed with success false.
C3_RefusalCompletes ==
    [][ (VideoPendingStep /\ PreconditionViolated) =>
            /\ app_status_label' = "No frames to encode"
            /\ threads' = threads /\ invocations' = 0
            /\ ~ffmpeg_success'
            /\ ffmpeg_encoding_status' = "Completed"
      ]_vars

\* C3 (amended): when video_generation_loop runs in the Pending state and
\* the precondition is violated, it reports it, starts no encoder (spawn
\* count 0) and ends the run without touching the success flag; the
\* encoding state stays Pending.
C3_RefusalEndsRun ==
    [][ (VideoPendingStep /\ PreconditionViolated) =>
            /\ app_status_label' = "No frames to encode"
            /\ threads' = threads /\ invocations' = 0
            /\ ffmpeg_success' = ffmpeg_success
            /\ ~ConvertLoopRunning'
            /\ ffmpeg_encoding_status' = "Pending"
      ]_vars

\* A run refused because a file of a non-empty range is absent.
C3_Witness ==
    /\ app_status_label = "No frames to encode"
    /\ ~ConvertLoopRunning
    /\ frames_to_encode > 0
    /\ PreconditionViolated
    /\ invocations = 0 /\ ~ffmpeg_success
    /\ ffmpeg_encoding_status = "Pending"

\* ---------------------------------------------------------------- C4
\* C4: once an encode was cancelled while Running, no output video file
\* exists.
C4_NoOutputAfterCancel == cancelled_encode => ~video_file

C6_ReadFailureSkipsFrame ==
    [][ /\ (skipped' # skipped /\ skipped' # {}) =>
            /\ skipped' = skipped \cup {CurrentFrame}
            /\ target_files' = target_files /\ written' = written
            /\ CurrentFrame' = CurrentFrame + 1
            /\ timers'["frame_generation_loop"] = timers["frame_generation_loop"]
            /\ UNCHANGED <<ConvertLoopRunning, ConvertLoopExitRequested,
                           BatchJobRunning, job_list, app_status_label, last_end>>
        /\ (FrameGenEndStep /\ ~ConvertLoopExitRequested /\ odd_at = -1) =>
            written = SelectSeq(RangeSeq(first_absolute_frame + StartFrame,
                                         frames_to_encode),
                                LAMBDA n : (n - first_absolute_frame) \notin skipped)
      ]_vars

\* Frame generation ended with a skipped index and a later index written.
C6_Witness ==
    /\ app_status_label = "Frame generation OK"
    /\ odd_at = -1
    /\ \E i \in skipped : \E k \in 1..Len(written) :
           written[k] > first_absolute_frame + i

\* ---------------------------------------------------------------- C7
\* C7: once a frame had an odd output dimension no further frame is
\* processed, and when the frame loop has stopped the run is reported as
\* failed.
C7_OddSizeFailsRun ==
    odd_at # -1 =>
        /\ Len(written) + Cardinality(skipped) = odd_at
        /\ timers["frame_generation_loop"] = 0 => app_status_label \in FailedLabels

\* ---------------------------------------------------------------- C8
\* C8: at most one frame is processed by an iteration that began after
\* the exit request was set.
C8_AtMostOneFrameLate == late_frames <= 1

\* The frame loop was cancelled in the middle of its range.
C8_Witness ==
    /\ app_status_label = "Cancelled by user"
    /\ ~cancelled_encode /\ invocations = 0
    /\ ~ConvertLoopRunning
    /\ Len(written) >= 1
    /\ CurrentFrame < StartFrame + frames_to_encode
    /\ late_frames <= 1

\* ---------------------------------------------------------------- C9
\* C9: a batch job whose run ended with a per-run error is left not done.
C9_FailedJobLeftNotDone ==
    (last_end.error /\ last_end.job \in 1..Len(job_list)) =>
        ~job_list[last_end.job].done

\* ---------------------------------------------------------------- C10
\* C10: when a batch job ends on an encoder failure or after an odd size,
\* without an exit request, the batch goes on and the queue runner is
\* scheduled; and the queue runner, when it fires with a job left and no
\* conversion running, starts the first job that is not done.
C10_FailureDoesNotStopQueue ==
    [][ /\ ( /\ BatchJobRunning /\ ConvertLoopRunning /\ ~ConvertLoopRunning'
             /\ ~ConvertLoopExitRequested
             /\ (app_status_label' = "Video generation failed" \/ odd_at # -1) ) =>
            /\ BatchJobRunning'
            /\ timers'["job_processing_loop"] = timers["job_processing_loop"] + 1
        /\ ( /\ timers'["job_processing_loop"] = timers["job_processing_loop"] - 1
             /\ BatchJobRunning /\ ~ConvertLoopRunning
             /\ \E j \in 1..Len(job_list) : ~job_list[j].done ) =>
            /\ CurrentJobEntry' \in 1..Len(job_list)
            /\ ~job_list[CurrentJobEntry'].done
            /\ \A k \in 1..(CurrentJobEntry' - 1) : job_list[k].done
            /\ ConvertLoopRunning' /\ BatchJobRunning'
      ]_vars

\* The job after one whose encoder failed is running.
C10_Witness ==
    /\ BatchJobRunning /\ ConvertLoopRunning
    /\ last_end.error /\ last_end.job \in 1..Len(job_list)
    /\ CurrentJobEntry > last_end.job
    /\ ~ffmpeg_success /\ ffmpeg_encoding_status = "Completed"

\* ---------------------------------------------------------------- C11
\* C11: a batch that is running is never left with nothing to carry it on:
\* while BatchJobRunning holds and no callback is executing, a conversion is
\* running or the queue runner is scheduled, whatever the frame range of the
\* job.
C11_BatchNeverStalls ==
    (BatchJobRunning /\ main_pc = "idle" /\ ~ConvertLoopExitRequested) =>
        (ConvertLoopRunning \/ timers["job_processing_loop"] > 0)

\* ---------------------------------------------------------------- C12
\* C12: in every step, a job that stays in the list keeps the snapshot it
\* was queued with; its done flag becomes true only in the step that ends
\* the batch run of that very job, and becomes false only in a rerun of
\* that very job.  Jobs are told apart by the number of their snapshot.
C12_SnapshotFrozenFlagByRunnerOrRerun ==
    [][ \A i \in 1..Len(job_list), j \in 1..Len(job_list') :
          job_list[i].project.id = job_list'[j].project.id =>
            /\ job_list'[j].project = job_list[i].project
            /\ (~job_list[i].done /\ job_list'[j].done) =>
                   /\ BatchJobRunning /\ ConvertLoopRunning /\ ~ConvertLoopRunning'
                   /\ CurrentJobEntry = i
            /\ (job_list[i].done /\ ~job_list'[j].done) =>
                   /\ queue_op' = "rerun" /\ edits' = edits + 1
                   /\ selected' = j
      ]_vars

\* A job the operator added has been run by the batch and is done, and the
\* settings in use differ from its snapshot.
C12_Witness ==
    /\ queue_op = "add" /\ Len(job_list) = MaxJobs
    /\ job_list[MaxJobs].done
    /\ project_config # copy_config(job_list[MaxJobs].project, 0)

\* ---------------------------------------------------------------- C13
\* C13: every encoder that was spawned got first_absolute_frame + StartFrame
\* as its start number and frames_to_encode as its frame limit, with
\* StartFrame and frames_to_encode as the precondition check of its run saw
\* them.
C13_EncoderGetsCheckedRange ==
    \A t \in 1..MaxThreads :
        threads[t].proc # "none" =>
            threads[t].args = <<first_absolute_frame + threads[t].checked[1],
                                threads[t].checked[2]>>

\* ---------------------------------------------------------------- C14
\* C14: a poll that reads a non-empty line without a numeric frame token
\* (a second token that is not a number, or a single token) reports it in
\* the status label and schedules the next poll; and the run ends with
\* "Video generated OK" exactly when the encoder's exit code was 0.
C14_BadLineReportedAndPollGoesOn ==
    [][ /\ line' \in {"garbage", "single"} =>
            /\ app_status_label' = "ffmpeg sync lost"
            /\ timers'["video_generation_loop"] = timers["video_generation_loop"]
        /\ ( /\ ffmpeg_encoding_status = "Completed" /\ main_pc = "idle"
             /\ ConvertLoopRunning /\ ~ConvertLoopRunning' ) =>
            ( app_status_label' = "Video generated OK" <=> ffmpeg_success )
      ]_vars

\* ---------------------------------------------------------------- C15
\* C15: the step that ends a run leaves one of the final statuses in the
\* status label; a run that met an error (odd dimension, template that does
\* not fit, failed encoder precondition, encoder failure) ends with a
\* failed status, not the success or the cancelled one; and a run the user
\* stopped before its work was over, without an error, ends with the
\* cancelled status.
SuccessLabels == {"Frame generation OK", "Video generated OK"}

CancelledLabels == {"Cancelled by user"}

C15_RunEndsWithItsStatus ==
    [][ (ConvertLoopRunning /\ ~ConvertLoopRunning') =>
          LET video_step ==
                  timers'["video_generation_loop"] = timers["video_generation_loop"] - 1
              error ==
                  \/ ~template_valid
                  \/ odd_at # -1
                  \/ video_step /\ ffmpeg_encoding_status = "Pending"
                  \/ video_step /\ ffmpeg_encoding_status = "Completed" /\ ~ffmpeg_success
              unfinished ==
                  IF video_step THEN ffmpeg_encoding_status = "Running"
                  ELSE CurrentFrame < StartFrame + frames_to_encode
          IN /\ app_status_label' \in SuccessLabels \cup CancelledLabels \cup FailedLabels
             /\ error => app_status_label' \in FailedLabels
             /\ (ConvertLoopExitRequested /\ ~error /\ unfinished) =>
                    app_status_label' \in CancelledLabels
      ]_vars

\* ---------------------------------------------------------------- C16
\* C16: system_suspend is called only with the suspend option set and every
\* job done, and not a second time for the same batch; and the queue runner
\* that finds every job done ends the batch and enables the widgets whether
\* or not the option is set.
C16_SuspendOnlyOnceAtTheEnd ==
    [][ /\ suspends' > suspends =>
            /\ suspend_on_joblist_end
            /\ \A j \in 1..Len(job_list) : job_list[j].done
            /\ suspends' = 1
        /\ ( /\ timers'["job_processing_loop"] = timers["job_processing_loop"] - 1
             /\ \A j \in 1..Len(job_list) : job_list[j].done ) =>
            /\ ~BatchJobRunning' /\ ~ConvertLoopRunning'
            /\ Go_btn' /\ start_batch_btn'
      ]_vars

\* ---------------------------------------------------------------- C17
\* C17: determine_hole_height leaves the film type as it is whenever a batch
\* is running, and changes it only when the first pattern was found below
\* the second one, no batch is running and the operator answered yes.
C17_FilmTypeOnlyOnAcceptance ==
    probe.op = "determine_hole_height" =>
        /\ probe.arg.batch => probe.res.FilmType = probe.arg.FilmType
        /\ probe.res.FilmType # probe.arg.FilmType =>
               /\ probe.arg.y > probe.arg.y2
               /\ ~probe.arg.batch
               /\ probe.arg.answer

\* The probe found the first pattern below the second one during a batch,
\* with an operator who would accept.
C17_Witness ==
    /\ probe.op = "determine_hole_height"
    /\ probe.arg.y > probe.arg.y2
    /\ probe.arg.batch /\ probe.arg.answer
    /\ probe.res.FilmType = probe.arg.FilmType

\* ---------------------------------------------------------------- C18
\* C18: in a run that started with a template that does not fit the search
\* area, no frame is read (none is skipped for a failed read), none is
\* transformed (none is found with an odd size) and none is written.
C18_NoFrameAfterFailedValidation ==
    ~template_valid =>
        /\ written = <<>>
        /\ skipped = {}
        /\ odd_at = -1
        /\ late_frames = 0

\* A run that started with a template that does not fit is over.
C18_Witness ==
    /\ ~template_valid
    /\ ~ConvertLoopRunning
    /\ starts > 0
    /\ timers["frame_generation_loop"] = 0

\* ---------------------------------------------------------------- C19
\* C19: match_template returns a result that is no match position exactly
\* when the template is wider or higher than the image, and a match
\* position of the template in the image in every other case.
C19_NoMatchIsExplicit ==
    probe.op = "match_template" =>
        LET template == <<probe.arg.tw, probe.arg.th>>
            img == <<probe.arg.iw, probe.arg.ih>>
            larger == template[1] > img[1] \/ template[2] > img[2]
        IN /\ larger =>
                 probe.res \notin (0..(MaxDim - 1)) \X (0..(MaxDim - 1))
           /\ ~larger => probe.res \in MatchLocations(template, img)

\* ---------------------------------------------------------------- C20
\* C20: when match_template finds no match in the left stripe of a frame,
\* stabilize_image shifts the frame by (0, 0).
C20_NoMatchMeansNoShift ==
    ( /\ probe.op = "stabilize_image"
      /\ (probe.arg.tw >= probe.arg.iw \/ probe.arg.th >= probe.arg.ih) ) =>
        probe.res = <<0, 0>>

\* ---------------------------------------------------------------- C21
\* C21: in a step of a run that stabilizes a frame, the out-of-bounds
\* record is logged if and only if missing_top < 0 or missing_bottom < 0
\* for that frame, and a frame with the record has its file written.
C21_OutOfBoundsLoggedFrameWritten ==
    [][ (perform_stabilization /\ img_read' \in FrameDims) =>
          LET move_y == stabilize_image(img_read', film_hole_template,
                                        get_image_left_stripe(img_read'),
                                        pattern_pos)[2]
              bottom == img_read'[2] - CropRectangle[2][2] + move_y
              top == CropRectangle[1][2] - move_y
          IN /\ out_of_bounds' = out_of_bounds + IF top < 0 \/ bottom < 0 THEN 1 ELSE 0
             /\ out_of_bounds' > out_of_bounds =>
                    /\ Len(written') = Len(written) + 1
                    /\ written'[Len(written')] \in target_files'
      ]_vars

\* ---------------------------------------------------------------- C22
\* C22 as stated: missing_top and missing_bottom are both >= 0 whenever the
\* crop rectangle holds the rows of the pattern at its place after the
\* shift, and one of them is negative whenever it does not.
C22_MissingRowsFollowPattern ==
    probe.op = "stabilize_image" =>
        LET pattern_top == probe.arg.y + probe.res.move_y
            pattern_bottom == pattern_top + probe.arg.th
            contained == probe.arg.tly <= pattern_top /\ pattern_bottom <= probe.arg.bry
        IN contained <=> (probe.res.missing_top >= 0 /\ probe.res.missing_bottom >= 0)

\* C22 amended: missing_top and missing_bottom are both >= 0 exactly when
\* the frame, shifted by move_y, still covers every row of the crop
\* rectangle: its first row move_y is not below the top of the rectangle and
\* its last row h + move_y not above the bottom of the rectangle.
C22_MissingRowsFollowFrame ==
    probe.op = "stabilize_image" =>
        /\ probe.res.missing_top >= 0 <=> probe.res.move_y <= probe.arg.tly
        /\ probe.res.missing_bottom >= 0 <=>
               probe.arg.bry <= probe.arg.h + probe.res.move_y

\* The crop rectangle holds the shifted pattern, and yet rows are missing
\* at the top.
C22_Witness ==
    /\ probe.op = "stabilize_image"
    /\ probe.arg.tly <= probe.arg.y + probe.res.move_y
    /\ probe.arg.y + probe.res.move_y + probe.arg.th <= probe.arg.bry
    /\ probe.res.missing_top < 0

\* ---------------------------------------------------------------- C23
\* Frame generation of a run with stabilization ends, not cancelled, with
\* no frame skipped and no odd size, under a crop rectangle that covers the
\* whole frame.
FullFrameRunEnds ==
    /\ FrameGenEndStep /\ ~ConvertLoopExitRequested
    /\ skipped = {} /\ odd_at = -1
    /\ perform_stabilization
    /\ CropRectangle[1] = <<0, 0>> /\ CropRectangle[2] = <<5, 4>>

\* C23 as stated: such a run has written one file for each of its N frames
\* and logged no out-of-bounds record.
C23_FullFrameRunLogsNothing ==
    [][ FullFrameRunEnds =>
            /\ Len(written) = frames_to_encode
            /\ out_of_bounds = 0
      ]_vars

\* C23 amended: such a run has written one file for each of its N frames;
\* it has logged no out-of-bounds record when the pattern sits at the
\* expected row (no vertical shift), and one record for each frame
\* otherwise.
C23_FullFrameRunLogsShiftedFrames ==
    [][ FullFrameRunEnds =>
          LET frame == CropRectangle[2]
              move_y == stabilize_image(frame, film_hole_template,
                                        get_image_left_stripe(frame), pattern_pos)[2]
          IN /\ Len(written) = frames_to_encode
             /\ out_of_bounds = IF move_y = 0 THEN 0 ELSE frames_to_encode
      ]_vars

\* A run of two frames under a full-frame crop has ended with two files and
\* two out-of-bounds records.
C23_Witness ==
    /\ perform_stabilization
    /\ CropRectangle[1] = <<0, 0>> /\ CropRectangle[2] = <<5, 4>>
    /\ app_status_label = "Frame generation OK"
    /\ odd_at = -1 /\ skipped = {}
    /\ Len(written) = 2 /\ out_of_bounds = 2

\* ---------------------------------------------------------------- C24
\* C24 as stated: for a rectangle with 0 <= topLeft <= bottomRight,
\* crop_image returns a region of width e - (e mod 2) with
\* e = min(bottomRight.x, W) - topLeft.x, and likewise for the height.
C24_CropSizeByFormula ==
    probe.op = "crop_image" =>
        LET ex == Min(probe.arg.brx, probe.arg.w) - probe.arg.tlx
            ey == Min(probe.arg.bry, probe.arg.h) - probe.arg.tly
        IN /\ probe.res.w = ex - (ex % 2)
           /\ probe.res.h = ey - (ey % 2)

\* C24 amended: the extent that is left of the top-left corner counts as 0
\* when that corner lies beyond the frame: the width is e - (e mod 2) with
\* e = max(min(bottomRight.x, W) - topLeft.x, 0), likewise for the height;
\* both are even, and the region starts at topLeft when it is not empty.
C24_CropSizeClamped ==
    probe.op = "crop_image" =>
        LET ex == Max(Min(probe.arg.brx, probe.arg.w) - probe.arg.tlx, 0)
            ey == Max(Min(probe.arg.bry, probe.arg.h) - probe.arg.tly, 0)
        IN /\ probe.res.w = ex - (ex % 2)
           /\ probe.res.h = ey - (ey % 2)
           /\ probe.res.w % 2 = 0 /\ probe.res.h % 2 = 0
           /\ (probe.res.w > 0 /\ probe.res.h > 0) =>
                  probe.res.x = probe.arg.tlx /\ probe.res.y = probe.arg.tly

\* A rectangle with an odd extent inside the frame was cropped to a region
\* that is not empty.
C24_Witness ==
    /\ probe.op = "crop_image"
    /\ (Min(probe.arg.brx, probe.arg.w) - probe.arg.tlx) % 2 = 1
    /\ probe.arg.brx > probe.arg.w
    /\ probe.res.w > 0 /\ probe.res.h > 0

\* ---------------------------------------------------------------- C25
\* C25: even_image returns, for a frame W x H, the region of
\* W - (W mod 2) by H - (H mod 2) pixels that starts at its top-left pixel;
\* both sizes are even.
C25_EvenImageIsEven ==
    probe.op = "even_image" =>
        probe.res = Region(0, 0, <<probe.arg.w - (probe.arg.w % 2),
                                   probe.arg.h - (probe.arg.h % 2)>>)

\* ---------------------------------------------------------------- C26
\* C26: crop_image applied again with the same rectangle, and even_image
\* applied again, return what the first application returned.
C26_Idempotent ==
    /\ probe.op = "crop_image twice" =>
           probe.res = crop_region(Region(0, 0, <<probe.arg.w, probe.arg.h>>),
                                   <<probe.arg.tlx, probe.arg.tly>>,
                                   <<probe.arg.brx, probe.arg.bry>>)
    /\ probe.op = "even_image twice" =>
           probe.res = even_region(Region(0, 0, <<probe.arg.w, probe.arg.h>>))


\* ------------------------------------------------------------------ C30
\* C30: when the encoder binary was found missing at start-up, no step of a
\* later run, single or batch, lets the worker thread call Popen on the
\* encoder command.
C30_NoSpawnWithoutEncoder ==
    [][~ffmpeg_installed =>
          ~(\E t \in 1..MaxThreads :
                threads[t].pc = "popen" /\ threads'[t].pc # "popen")]_vars

\* ------------------------------------------------------------------ C29
\* C29: the 4:3 and the 16:9 locks are never both set, neither in the items
\* Force_4/3 and Force_16/9 of project_config nor in the flags Force43 and
\* Force169 that draw_rectangle reads, after any clicks on the two
\* checkboxes and any project load.
C29_LocksExclusive ==
    /\ ~(Force43 /\ Force169)
    /\ ~(stored_lock(force_config, "Force_4/3") /\ stored_lock(force_config, "Force_16/9"))

\* ------------------------------------------------------------------ C27
\* The scale w / 2028 of a template that is not custom, 1.0 of a custom one.
expected_scale(type, w) ==
    IF type = "custom" THEN [num |-> 1, den |-> 1] ELSE [num |-> w, den |-> 2028]

same_scale(a, b) == a.num * b.den = b.num * a.den

\* C27: after refresh(w) a template has scale w / 2028, 1.0 when it is
\* custom, and scaled_position = round(position * scale) on both
\* coordinates. refresh runs on every template of the registry in
\* set_scale_and_refresh_all and on the template that add finds stored.
C27_RefreshScalesAndRounds ==
    LET refreshed == CASE template_op.op = "set_scale_and_refresh_all"
                               /\ template_op.arg # NoImage ->
                               DOMAIN template_list.templates
                        [] template_op.op = "add (refresh)" -> {template_op.arg}
                        [] OTHER -> {}
    IN \A k \in refreshed :
           LET t == template_list.templates[k]
           IN /\ same_scale(t.scale, expected_scale(t.type, template_list.img_width))
              /\ t.scaled_position =
                     <<round_div(t.position[1] * t.scale.num, t.scale.den),
                       round_div(t.position[2] * t.scale.num, t.scale.den)>>

\* ------------------------------------------------------------------ C28
\* C28: after set_scale_and_refresh_all for a frame of width w every template
\* of the registry, also one whose image could not be loaded, has the scale
\* of its type for w, and its scaled size and scaled position are its size
\* and position times that scale.
C28_RegistryScaleFollowsWidth ==
    template_op.op = "set_scale_and_refresh_all" /\ template_op.arg # NoImage =>
        \A k \in DOMAIN template_list.templates :
            LET t == template_list.templates[k]
                scale == expected_scale(t.type, template_op.arg[1])
            IN /\ same_scale(t.scale, scale)
               /\ t.scaled_size = <<(t.size[1] * scale.num) \div scale.den,
                                    (t.size[2] * scale.num) \div scale.den>>
               /\ t.scaled_position = <<(t.position[1] * scale.num) \div scale.den,
                                        (t.position[2] * scale.num) \div scale.den>>

\* ------------------------------------------------------------------ C31
\* C31: start_conversion() leaves is_conversion_loop_running True and
\* stop_conversion() leaves it False, and neither changes the exit request,
\* the batch flag or the correction flag.
C31_ConversionFlagFollowsCalls ==
    [][/\ status_op' = "start_conversion" =>
              afterscan_status'["is_conversion_loop_running"] = TRUE
       /\ status_op' = "stop_conversion" =>
              afterscan_status'["is_conversion_loop_running"] = FALSE
       /\ status_op' \in {"start_conversion", "stop_conversion"} =>
              \A k \in {"is_conversion_loop_exit_requested", "is_batch_job_running",
                         "is_correction_loop_running"} :
                  afterscan_status'[k] = afterscan_status[k]]_vars

\* ------------------------------------------------------------------ C32
\* The callbacks of the conversion loops waiting to run, and the hand-over
\* to the encoder thread that video_generation_loop is in the middle of.
LoopChains ==
    timers["frame_generation_loop"] + timers["video_generation_loop"]
        + (IF main_pc = "thread_started" THEN 1 ELSE 0)

\* A start request received while a conversion is running, from a button
\* or from a runner step that was waiting: the step that sets the exit
\* request.
StartWhileRunningStep ==
    ConvertLoopRunning /\ ~ConvertLoopExitRequested /\ ConvertLoopExitRequested'

\* C32: at most one conversion loop chain is active at a time, and a start
\* request received while a conversion is running sets the exit request and
\* nothing else: it schedules no loop and leaves the run, its settings and
\* the queue as they are.
C32_StartOnlySetsExitRequest ==
    /\ [](LoopChains <= 1)
    /\ [][StartWhileRunningStep =>
              /\ timers'["frame_generation_loop"] = timers["frame_generation_loop"]
              /\ timers'["video_generation_loop"] = timers["video_generation_loop"]
              /\ UNCHANGED <<ConvertLoopRunning, BatchJobRunning, CurrentJobEntry,
                             job_list, StartFrame, CurrentFrame, frames_to_encode,
                             project_config>>]_vars

\* ------------------------------------------------------------------ C33
\* A batch job ends on the exit request: generation_exit runs with
\* BatchJobRunning and ConvertLoopExitRequested set.
BatchCancelStep ==
    /\ BatchJobRunning
    /\ ConvertLoopRunning
    /\ ConvertLoopExitRequested
    /\ ~ConvertLoopRunning'

\* C33: when a batch job is cancelled the job list is left as it is, so the
\* job keeps done = false, the batch flag is cleared, the exit request is
\* reset and no runner step is left waiting that would start a later job
\* before the user starts the batch again.
C33_CancelStopsBatch ==
    [][BatchCancelStep =>
          /\ job_list' = job_list
          /\ ~job_list'[CurrentJobEntry].done
          /\ ~BatchJobRunning'
          /\ ~ConvertLoopExitRequested'
          /\ timers'["job_processing_loop"] = 0]_vars

\* ------------------------------------------------------------------ C34
\* C34: in a batch the exit request is set on a running job only by the
\* operator, never by a step of the queue runner that was waiting: the step
\* that sets it does not take a job_processing_loop callback off the timer
\* queue.
C34_RunnerNeverCancelsItsJob ==
    [][BatchJobRunning /\ StartWhileRunningStep =>
          timers'["job_processing_loop"] = timers["job_processing_loop"]]_vars

\* ------------------------------------------------------------------ C35
\* C35: once the user has requested a stop during a run, with the exit
\* request still set, no step of that run starts the encoder thread, whose
\* first statement after building the command is Popen.
C35_NoEncoderAfterStopRequest ==
    [][ConvertLoopRunning /\ ConvertLoopExitRequested /\ template_valid =>
          invocations' # invocations + 1]_vars

\* ------------------------------------------------------------------ C36
\* video_generation_loop runs with the encoding state Running: it reads a
\* line of the encoder, or leaves without scheduling itself again after a
\* cancellation or an exception.
VideoRunningStep ==
    /\ main_pc = "idle"
    /\ ffmpeg_encoding_status = "Running"
    /\ \/ line' # "none"
       \/ timers'["video_generation_loop"] = timers["video_generation_loop"] - 1

\* C36: whenever video_generation_loop, in state Running, reads from or
\* terminates ffmpeg_process, the worker thread of the current run has
\* executed Popen: the name is bound and no thread is still before its
\* Popen.
C36_PollUsesProcessOfThisRun ==
    [][VideoRunningStep =>
          /\ ffmpeg_process # 0
          /\ \A t \in 1..MaxThreads : threads[t].pc # "popen"]_vars

\* ------------------------------------------------------------------ C37
\* C37: when video_generation_loop starts the encoder thread, every frame of
\* the range that this run skipped because it could not be decoded has an
\* output file of its number in the target directory.
C37_NoEncoderOverMissingFrame ==
    [][invocations' = invocations + 1 =>
          \A k \in skipped :
              (k >= StartFrame /\ k < StartFrame + frames_to_encode) =>
                  target_number(k) \in target_files]_vars

\* The encoder thread was started in a run that skipped a frame whose
\* output file an earlier run had left in the target directory.
C37_Witness ==
    /\ invocations = 1
    /\ \E k \in skipped :
           /\ k >= StartFrame /\ k < StartFrame + frames_to_encode
           /\ target_number(k) \in target_files
    /\ \E t \in 1..MaxThreads : threads[t].pc = "popen"

\* ------------------------------------------------------------------ C38
\* C38: a step of frame_generation_loop that writes an output file writes
\* the image of the source frame it read, SourceDirFileList[CurrentFrame],
\* under the number first_absolute_frame + CurrentFrame.
C38_FileNumberIsFrameIndex ==
    [][Len(written') = Len(written) + 1 =>
          written'[Len(written')] = first_absolute_frame + CurrentFrame]_vars

\* ------------------------------------------------------------------ C39
\* C39: after any add, remove and set_active_template the active template
\* is none or a template stored in the registry; add leaves its template
\* active, and set_active_template with an unknown key leaves the active
\* template as it was.
C39_ActiveTemplateIsStored ==
    /\ [](template_list.active_template = <<>>
             \/ template_list.active_template \in DOMAIN template_list.templates)
    /\ [][/\ (template_op'.op \in {"add (create)", "add (refresh)"} =>
                  template_list'.active_template = template_op'.arg)
           /\ (template_op'.op = "set_active_template (False)" =>
                  template_list'.active_template = template_list.active_template)]_vars

\* ------------------------------------------------------------------ C40
\* C40: after set_active_position(p) the active template has
\* scaled_position = p = int(position * scale) on both coordinates, and a
\* refresh at the same width leaves scaled_position equal to p.
C40_PositionRoundTrip ==
    template_op.op = "set_active_position"
    /\ template_list.active_template \in DOMAIN template_list.templates =>
        LET t == template_list.templates[template_list.active_template]
        IN /\ t.scaled_position = template_op.arg
           /\ t.scaled_position = <<(t.position[1] * t.scale.num) \div t.scale.den,
                                    (t.position[2] * t.scale.num) \div t.scale.den>>
           /\ Template_refresh(t, template_list.img_width).scaled_position
                  = template_op.arg

====
